---- MODULE Spec2Model ----
(***************************************************************************)
(* State-machine model of the PipManager coordinator                      *)
(* (services/app_logic.py: class AppLogic) together with the parts of the  *)
(* gateway (services/pip_service.py) and of the size-cache store           *)
(* (services/cache_service.py) that it drives.                             *)
(*                                                                         *)
(* One UI thread calls the public methods; every threading.Thread the     *)
(* code starts is a record in the bag `threads`, whose pc names the source *)
(* line the thread has reached.  threading.Lock has no owner, so each lock *)
(* is a boolean; which thread holds it follows from the thread's pc.       *)
(* GLib.idle_add only queues a call for the UI loop: the model keeps the   *)
(* lines queued by the latest step among the log lines the properties     *)
(* below speak about (rejection, cancellation, failure), the latest queued *)
(* set_busy value and the latest queued total-size label.                  *)
(*                                                                         *)
(* A step is a stretch of one thread's code that ends where the thread can *)
(* block (a lock) or where another thread can see a difference; a gateway  *)
(* call that touches no state of the coordinator is drawn with \E in the   *)
(* step that uses its result.  Package.version plays no part in whether a  *)
(* step can happen and is left out of the record.                           *)
(***************************************************************************)
EXTENDS Integers, Sequences, FiniteSets, Bags, TLC

VARIABLES
    is_busy,                  \* AppLogic.is_busy
    packages_data,            \* AppLogic.packages_data: name -> Package
    size_cache,               \* AppLogic.size_cache: name -> size string
    cache_file,               \* content of CACHE_FILE (sizes.json): the
                              \* mapping it holds; in SpecCache, its text
    cache_save_lock,          \* cache_service._cache_save_lock is held
    active_size_calculations, \* AppLogic.active_size_calculations
    main_lock,                \* AppLogic._main_lock is held
    size_calculation_lock,    \* AppLogic._size_calculation_lock is held
    threads,                  \* bag of the running background threads
    ui,                       \* the UI thread: where it is in a public method
    uninstalled,              \* names whose uninstall command exited with 0
                              \* and whose install command has not since
    lastLog,                  \* tracked log lines queued by the latest step
    busy_note,                \* latest value queued for callbacks['set_busy']
    total_label,              \* latest text queued for set_total_size_label
    ops,                      \* number of public calls the UI has made
    idle_queue                \* pipman.py: callbacks queued with
                              \* GLib.idle_add and not yet run

vars == <<is_busy, packages_data, size_cache, cache_file, cache_save_lock,
          active_size_calculations, main_lock, size_calculation_lock,
          threads, ui, uninstalled, lastLog, busy_note,
          total_label, ops, idle_queue>>

\* ------------------------------------------------------------------ bounds

\* Number of public method calls the UI thread makes in one run.
MaxOps == 2

\* Package names of the model, in the order of sorted(key=name.lower()).
NameOrder == <<"a", "b">>

Names == {NameOrder[i] : i \in 1..Len(NameOrder)}

Rank(n) == CHOOSE i \in 1..Len(NameOrder) : NameOrder[i] = n

\* First name of a non-empty set in the iteration order of the table.
FirstName(S) == CHOOSE n \in S : \A m \in S : Rank(n) <= Rank(m)

\* ------------------------------------------------------------ size strings

\* A size string is kept as its parts: kind "num" is "<hundredths/100> <unit>".
SizeStr(kind, hundredths, unit) ==
    [kind |-> kind, hundredths |-> hundredths, unit |-> unit]

Pending == SizeStr("...", 0, "")

NotFound == SizeStr("Not Found", 0, "")

ErrorStr == SizeStr("Error", 0, "")

KB15 == SizeStr("num", 150, "KB")

\* Package(name, version): the dataclass defaults.
NewPackage == [latest_version |-> "", size_str |-> Pending, size_bytes |-> 0]

Multiplier(unit) ==
    CASE unit = "B" -> 1
      [] unit = "KB" -> 1024
      [] unit = "MB" -> 1024 * 1024
      [] unit = "GB" -> 1024 * 1024 * 1024
      [] OTHER -> 0

\* AppLogic._parse_size_str_to_bytes
ParseSizeStrToBytes(s) ==
    IF s.kind \in {"...", "Error"} THEN 0
    ELSE IF s.kind = "num" /\ s.unit \in {"B", "KB", "MB", "GB"}
         THEN (s.hundredths * Multiplier(s.unit)) \div 100
         ELSE 0

\* n * scale / den as quotient and remainder, for den a power of 1024, in
\* steps that stay below 2^31.
QuotRem(n, scale, den) ==
    LET low == (n % 1024) * scale
        top == (n \div 1024) * scale + (low \div 1024)
    IN [quot |-> top \div (den \div 1024),
        rem |-> (top % (den \div 1024)) * 1024 + (low % 1024)]

\* What the format specs .1f (scale 10) and .2f (scale 100) print of
\* n / den, as a whole number of tenths or hundredths: n / den is exact in
\* a float, and the nearest decimal is taken, the even one on a tie.
Rounded(n, scale, den) ==
    LET qr == QuotRem(n, scale, den)
    IN IF 2 * qr.rem > den \/ (2 * qr.rem = den /\ qr.quot % 2 = 1)
       THEN qr.quot + 1
       ELSE qr.quot

\* Units that change at powers of 1000.
FormatSizeDecimalUnits(total_size) ==
    IF total_size < 1000 THEN SizeStr("num", total_size * 100, "B")
    ELSE IF total_size < 1000 * 1000
    THEN SizeStr("num", 10 * Rounded(total_size, 10, 1024), "KB")
    ELSE IF total_size < 1000 * 1000 * 999
    THEN SizeStr("num", Rounded(total_size, 100, 1024 * 1024), "MB")
    ELSE SizeStr("num", Rounded(total_size, 100, 1024 * 1024 * 1024), "GB")

\* PipService.get_package_size, lines 106-116: the size string of a total.
FormatSize(total_size) ==
    IF total_size = 0 THEN SizeStr("num", 0, "B")
    ELSE IF total_size < 1024 THEN SizeStr("num", total_size * 100, "B")
    ELSE IF total_size < 1024 * 1024
    THEN SizeStr("num", 10 * Rounded(total_size, 10, 1024), "KB")
    ELSE IF total_size < 1024 * 1024 * 999
    THEN SizeStr("num", Rounded(total_size, 100, 1024 * 1024), "MB")
    ELSE SizeStr("num", Rounded(total_size, 100, 1024 * 1024 * 1024), "GB")

TwoDigits(k) == IF k < 10 THEN "0" \o ToString(k) ELSE ToString(k)

\* The text a size string of get_package_size stands for: no decimals for
\* B, one for KB (.1f), two for MB and GB (.2f).
SizeText(s) ==
    CASE s.kind # "num" -> s.kind
      [] s.unit = "B" -> ToString(s.hundredths \div 100) \o " B"
      [] s.unit = "KB" ->
            ToString(s.hundredths \div 100) \o "."
            \o ToString((s.hundredths % 100) \div 10) \o " KB"
      [] OTHER ->
            ToString(s.hundredths \div 100) \o "."
            \o TwoDigits(s.hundredths % 100) \o " " \o s.unit

\* PipService.get_package_size: files with a byte total, or one of the two
\* exceptions.
get_package_size(outcome) ==
    CASE outcome.kind = "PackageNotFoundError" ->
            [size_bytes |-> 0, size_str |-> NotFound]
      [] outcome.kind = "Exception" ->
            [size_bytes |-> 0, size_str |-> ErrorStr]
      [] OTHER ->
            [size_bytes |-> outcome.total_size,
             size_str |-> FormatSize(outcome.total_size)]

Measured(total_size) == [kind |-> "files", total_size |-> total_size]

\* The (size_bytes, size_str) pairs PipService.get_package_size returns here:
\* a computed size and its two sentinels.
SizeResults ==
    {get_package_size(outcome) :
        outcome \in {Measured(1536),
                     [kind |-> "PackageNotFoundError", total_size |-> 0],
                     [kind |-> "Exception", total_size |-> 0]}}

RECURSIVE SumBytes(_, _)
SumBytes(tbl, S) ==
    IF S = {} THEN 0
    ELSE LET n == CHOOSE x \in S : TRUE
         IN tbl[n].size_bytes + SumBytes(tbl, S \ {n})

\* AppLogic._calculate_and_display_total_size: the label it queues.
TotalLabel(tbl) == [text |-> "total", bytes |-> SumBytes(tbl, DOMAIN tbl)]

PlaceholderLabel == [text |-> "...", bytes |-> 0]

CalculatingLabel == [text |-> "Calculating...", bytes |-> 0]

\* ----------------------------------------------------------------- threads

\* kind: which worker function the thread runs; pc: the line it has reached;
\* op, name: the command and package it was started for; success: the
\* worker's local of that name; return_code: the pip worker's local of that
\* name; new_packages_data, todo, num_to_calculate:
\* locals of _initial_load_worker (todo is what its for loop has left);
\* current: the dict its loop iterates is still self.packages_data;
\* built: self.packages_data is still the dict this worker assigned to it;
\* connected, outdated_info, status_message: what the outdated-check worker
\* has got from the gateway so far (the probe's result, the names of the
\* mapping, the status with "" for None), its return_code being the exit
\* code of the outdated-list command; cache_data, written: the argument of
\* a save_size_cache call and the number of pieces of text its file object
\* has written.
Thread(kind, pc, op, name) ==
    [kind |-> kind, pc |-> pc, op |-> op, name |-> name, success |-> FALSE,
     return_code |-> 0, new_packages_data |-> {}, todo |-> {},
     num_to_calculate |-> 0, current |-> FALSE, connected |-> TRUE,
     outdated_info |-> {}, status_message |-> "", cache_data |-> <<>>,
     written |-> 0, built |-> FALSE]

Running == BagToSet(threads)

Spawn(b, t) == b (+) SetToBag({t})

Exit(b, t) == b (-) SetToBag({t})

Goto(b, t, u) == Spawn(Exit(b, t), u)

\* Dictionary helpers.

\* A del that removes nothing.
WithoutNothing(f, n) == f

\* `del f[n]`.
Without(f, n) == [x \in (DOMAIN f) \ {n} |-> f[x]]

\* A store that keeps the sentinels of get_package_size out of the mapping.
WithOnlyNumbers(f, n, v) ==
    IF v \in {NotFound, ErrorStr}
    THEN f
    ELSE [x \in (DOMAIN f) \cup {n} |-> IF x = n THEN v ELSE f[x]]

\* `f[n] = v`.
With(f, n, v) == [x \in (DOMAIN f) \cup {n} |-> IF x = n THEN v ELSE f[x]]

EmptyMap == [x \in {} |-> 0]

\* ------------------------------------------------------------------- Init

\* AppLogic.__init__: size_cache = load_size_cache() is what the file holds.
Init ==
    /\ is_busy = FALSE
    /\ packages_data = EmptyMap
    /\ cache_file \in {EmptyMap, [x \in {"a"} |-> KB15]}
    /\ size_cache = cache_file
    /\ cache_save_lock = FALSE
    /\ idle_queue = <<>>
    /\ active_size_calculations = 0
    /\ main_lock = FALSE
    /\ size_calculation_lock = FALSE
    /\ threads = EmptyBag
    /\ ui = [pc |-> "idle", op |-> "", name |-> "", deleted |-> FALSE]
    /\ uninstalled = {}
    /\ lastLog = <<>>
    /\ busy_note = FALSE
    /\ total_label = [text |-> "", bytes |-> 0]
    /\ ops = 0

\* ---------------------------------------------------- begin / end operation

AlreadyLine == "Operation already in progress. Please wait."

\* A begin that does not test the flag.
BeginGrantedAlways(busy) == TRUE

\* _begin_operation, line 53: the call is granted iff is_busy is false.
BeginGranted(busy) == ~busy

\* The thread a public method starts once its operation has begun.
WorkerFor(op, name) ==
    CASE op = "load" -> Thread("load", "list", op, "")
      [] op \in {"install", "update", "uninstall", "clear"} ->
            Thread("pip", "run", op, name)
      [] op = "deps" -> Thread("deps", "run", op, "")
      [] op = "details" -> Thread("details", "run", op, name)

\* The argv each public method hands to _run_pip_command_threaded.
CommandList(op, name) ==
    CASE op = "install" -> <<"pip", "install", "--user", name>>
      [] op = "update" -> <<"pip", "install", "--user", "--upgrade", name>>
      [] op = "uninstall" -> <<"pip", "uninstall", "-y", name>>
      [] op = "clear" -> <<"pip", "cache", "purge">>

\* `"cache" in command_list`
CacheInCommand(op, name) ==
    \E i \in 1..Len(CommandList(op, name)) : CommandList(op, name)[i] = "cache"

\* callback_on_finish is passed by install, update and uninstall only.
HasCallback(op) == op \in {"install", "update", "uninstall"}

\* _begin_operation followed by the start of the worker, as the calling
\* thread runs them; `rest` is what becomes of the bag without that worker.
BeginAndStart(op, name, rest) ==
    /\ ~main_lock
    /\ IF BeginGranted(is_busy)
       THEN /\ is_busy' = TRUE
            /\ busy_note' = TRUE
            /\ lastLog' = <<>>
            /\ total_label' =
                 IF op = "load" THEN PlaceholderLabel ELSE total_label
            /\ threads' = Spawn(rest, WorkerFor(op, name))
       ELSE /\ lastLog' = <<AlreadyLine>>
            /\ threads' = rest
            /\ UNCHANGED <<is_busy, busy_note, total_label>>

\* An _end_operation that takes the lock and clears nothing.
EndOperationForgotten ==
    /\ ~main_lock
    /\ UNCHANGED <<is_busy, busy_note>>

\* _end_operation: the caller must get _main_lock first.
EndOperation ==
    /\ ~main_lock
    /\ is_busy' = FALSE
    /\ busy_note' = FALSE

\* ------------------------------------------------------------ the UI thread

\* Lines 122 and 130: update_package and uninstall_package delete the size
\* cache entry of the name, if there is one, before _begin_operation.
DeletesEntry(op, name) ==
    op \in {"update", "uninstall"} /\ name \in DOMAIN size_cache

\* The UI thread enters a public method, the calls so far being below bound;
\* `deleted` records whether the method has deleted a cache entry.
UiCallBelow(bound, op, name) ==
    /\ ui.pc = "idle"
    /\ ops < bound
    /\ ops' = ops + 1
    /\ ui' = [pc |-> "begin", op |-> op, name |-> name,
              deleted |-> DeletesEntry(op, name)]

UiCall(op, name) == UiCallBelow(MaxOps, op, name)

LoadPackagesBelow(bound) ==
    /\ UiCallBelow(bound, "load", "")
    /\ lastLog' = <<>>
    /\ UNCHANGED <<is_busy, packages_data, size_cache, cache_file,
                   cache_save_lock, active_size_calculations, main_lock,
                   size_calculation_lock, threads, uninstalled, busy_note,
                   total_label, idle_queue>>

load_packages == LoadPackagesBelow(MaxOps)

\* A check that lets every name through.
NameGivenAlways(package_name) == TRUE

\* Line 107: `if not package_name` is the negation of this.
NameGiven(package_name) == package_name # ""

\* The line of line 108.
PleaseLine == "Please enter a package name."

install_package ==
    \E package_name \in Names \cup {""} :
        /\ IF ~NameGiven(package_name)
           THEN /\ ui.pc = "idle"
                /\ ops < MaxOps
                /\ ops' = ops + 1
                /\ lastLog' = <<PleaseLine>>
                /\ UNCHANGED ui
           ELSE /\ UiCall("install", package_name)
                /\ lastLog' = <<>>
        /\ UNCHANGED <<is_busy, packages_data, size_cache, cache_file,
                       cache_save_lock, active_size_calculations, main_lock,
                       size_calculation_lock, threads, uninstalled, busy_note,
                       total_label, idle_queue>>

update_package ==
    \E pkg_name \in Names :
        /\ UiCall("update", pkg_name)
        /\ size_cache' = Without(size_cache, pkg_name)
        /\ lastLog' = <<>>
        /\ UNCHANGED <<is_busy, packages_data, cache_file, cache_save_lock,
                       active_size_calculations, main_lock,
                       size_calculation_lock, threads, uninstalled, busy_note,
                       total_label, idle_queue>>

uninstall_package ==
    \E pkg_name \in Names :
        /\ UiCall("uninstall", pkg_name)
        /\ size_cache' = Without(size_cache, pkg_name)
        /\ cache_file' =
             IF pkg_name \in DOMAIN size_cache THEN size_cache' ELSE cache_file
        /\ lastLog' = <<>>
        /\ UNCHANGED <<is_busy, packages_data, active_size_calculations,
                       main_lock, size_calculation_lock, threads, uninstalled,
                       busy_note, total_label, cache_save_lock, idle_queue>>

clear_pip_cache ==
    /\ UiCall("clear", "")
    /\ lastLog' = <<>>
    /\ UNCHANGED <<is_busy, packages_data, size_cache, cache_file,
                   cache_save_lock, active_size_calculations, main_lock,
                   size_calculation_lock, threads, uninstalled, busy_note,
                   total_label, idle_queue>>

check_dependencies ==
    /\ UiCall("deps", "")
    /\ lastLog' = <<>>
    /\ UNCHANGED <<is_busy, packages_data, size_cache, cache_file,
                   cache_save_lock, active_size_calculations, main_lock,
                   size_calculation_lock, threads, uninstalled, busy_note,
                   total_label, idle_queue>>

show_package_details ==
    \E pkg_name \in Names :
        /\ UiCall("details", pkg_name)
        /\ lastLog' = <<>>
        /\ UNCHANGED <<is_busy, packages_data, size_cache, cache_file,
                       cache_save_lock, active_size_calculations, main_lock,
                       size_calculation_lock, threads, uninstalled, busy_note,
                       total_label, idle_queue>>

\* The UI thread inside _begin_operation; on success it starts the worker.
UiBegin ==
    /\ ui.pc = "begin"
    /\ BeginAndStart(ui.op, ui.name, threads)
    /\ ui' = [pc |-> "idle", op |-> "", name |-> "", deleted |-> FALSE]
    /\ UNCHANGED <<packages_data, size_cache, cache_file, cache_save_lock,
                   active_size_calculations, main_lock, size_calculation_lock,
                   uninstalled, ops, idle_queue>>

\* --------------------------------------- _run_pip_command_threaded.worker

\* What a command that exits with code 0 does to the environment: the
\* names pip has removed and not installed again.
AfterCommand(op, name) ==
    CASE op = "uninstall" -> uninstalled \cup {name}
      [] op = "install" -> uninstalled \ {name}
      [] OTHER -> uninstalled

\* Exit codes of PipService.run_command: -1 is a missing executable.
ReturnCodes == {0, 1, -1}

\* A test that takes every code but -1 for success.
CommandSucceededUnlessMissing(return_code) == return_code # -1

\* Line 242: `return_code == 0`.
CommandSucceeded(return_code) == return_code = 0

\* The error line of line 248.
ErrorLine == "Error: failed"

\* Lines 241-248: run the command and log its outcome.
PipRun(t) ==
    /\ t.kind = "pip" /\ t.pc = "run"
    /\ \E return_code \in ReturnCodes :
         IF CommandSucceeded(return_code)
         THEN /\ uninstalled' = AfterCommand(t.op, t.name)
              /\ lastLog' = <<>>
              /\ threads' = Goto(threads, t,
                    IF HasCallback(t.op)
                    THEN [t EXCEPT !.pc = "callback",
                                   !.return_code = return_code]
                    ELSE [t EXCEPT !.pc = "finally", !.success = TRUE,
                                   !.return_code = return_code])
         ELSE /\ uninstalled' = uninstalled
              /\ lastLog' = <<ErrorLine>>
              /\ threads' = Goto(threads, t,
                    [t EXCEPT !.pc = "finally", !.return_code = return_code])
    /\ UNCHANGED <<is_busy, packages_data, size_cache, cache_file,
                   cache_save_lock, active_size_calculations, main_lock,
                   size_calculation_lock, ui, busy_note, total_label, ops,
                   idle_queue>>

\* A finally block that starts the worker after a failed command too.
CacheWorkersAlways(t, success) ==
    IF CacheInCommand(t.op, t.name)
    THEN SetToBag({Thread("cache_size", "run", "", "")})
    ELSE EmptyBag

\* Threads started by line 254 when the worker leaves.
CacheWorkers(t, success) ==
    IF success /\ CacheInCommand(t.op, t.name)
    THEN SetToBag({Thread("cache_size", "run", "", "")})
    ELSE EmptyBag

\* Line 245: callback_on_finish is load_packages(), run by this worker; then
\* success = True, so the finally block ends nothing (lines 250-254).
PipCallback(t) ==
    /\ t.kind = "pip" /\ t.pc = "callback"
    /\ BeginAndStart("load", "", Exit(threads, t) (+) CacheWorkers(t, TRUE))
    /\ UNCHANGED <<packages_data, size_cache, cache_file, cache_save_lock,
                   active_size_calculations, main_lock, size_calculation_lock,
                   ui, uninstalled, ops, idle_queue>>

\* Lines 250-254 when the command failed or had no callback.
PipFinally(t) ==
    /\ t.kind = "pip" /\ t.pc = "finally"
    /\ EndOperation
    /\ threads' = Exit(threads, t) (+) CacheWorkers(t, t.success)
    /\ lastLog' = <<>>
    /\ UNCHANGED <<packages_data, size_cache, cache_file, cache_save_lock,
                   active_size_calculations, main_lock, size_calculation_lock,
                   ui, uninstalled, total_label, ops, idle_queue>>

\* _update_cache_size_display_worker: touches only the tooltip.
CacheSizeWorker(t) ==
    /\ t.kind = "cache_size"
    /\ threads' = Exit(threads, t)
    /\ lastLog' = <<>>
    /\ UNCHANGED <<is_busy, packages_data, size_cache, cache_file,
                   cache_save_lock, active_size_calculations, main_lock,
                   size_calculation_lock, ui, uninstalled, busy_note,
                   total_label, ops, idle_queue>>

\* The lines of lines 262, 264 and 156.
NoBrokenLine == "Success: No broken requirements found."

IssuesLine == "Found dependency issues:"

NoDetailsLine == "Could not retrieve details"

\* _check_dependencies_worker, lines 260-265: the gateway returns an exit
\* code (-1 for its own errors, it never raises) and one line is queued.
CheckDependenciesWorker(t) ==
    /\ t.kind = "deps" /\ t.pc = "run"
    /\ \E return_code \in ReturnCodes :
         lastLog' = IF return_code = 0 THEN <<NoBrokenLine>> ELSE <<IssuesLine>>
    /\ threads' = Goto(threads, t, [t EXCEPT !.pc = "finally"])
    /\ UNCHANGED <<is_busy, packages_data, size_cache, cache_file,
                   cache_save_lock, active_size_calculations, main_lock,
                   size_calculation_lock, ui, uninstalled, busy_note,
                   total_label, ops, idle_queue>>

\* _check_dependencies_worker, lines 266-267: the finally block.
CheckDependenciesFinally(t) ==
    /\ t.kind = "deps" /\ t.pc = "finally"
    /\ EndOperation
    /\ lastLog' = <<>>
    /\ threads' = Exit(threads, t)
    /\ UNCHANGED <<packages_data, size_cache, cache_file, cache_save_lock,
                   active_size_calculations, main_lock, size_calculation_lock,
                   ui, uninstalled, total_label, ops, idle_queue>>

\* What get_package_details returns: a mapping with fields, an empty
\* mapping, or None for a failed command or any error (it never raises).
DetailsResults == {"details", "empty", "None"}

\* show_package_details.worker, lines 152-156: the dialog is queued for a
\* mapping with fields, the line for an empty mapping or None.
DetailsWorker(t) ==
    /\ t.kind = "details" /\ t.pc = "run"
    /\ \E details \in DetailsResults :
         lastLog' = IF details = "details" THEN <<>> ELSE <<NoDetailsLine>>
    /\ threads' = Goto(threads, t, [t EXCEPT !.pc = "finally"])
    /\ UNCHANGED <<is_busy, packages_data, size_cache, cache_file,
                   cache_save_lock, active_size_calculations, main_lock,
                   size_calculation_lock, ui, uninstalled, busy_note,
                   total_label, ops, idle_queue>>

\* show_package_details.worker, lines 157-158: the finally block.
DetailsFinally(t) ==
    /\ t.kind = "details" /\ t.pc = "finally"
    /\ EndOperation
    /\ lastLog' = <<>>
    /\ threads' = Exit(threads, t)
    /\ UNCHANGED <<packages_data, size_cache, cache_file, cache_save_lock,
                   active_size_calculations, main_lock, size_calculation_lock,
                   ui, uninstalled, total_label, ops, idle_queue>>

\* ------------------------------------------------ _initial_load_worker

\* The other load workers now iterate a dict that is no longer the table.
Stale(t) ==
    IF t.kind = "load"
    THEN [t EXCEPT !.current = FALSE, !.built = FALSE]
    ELSE t

MarkStale(b) ==
    [u \in {Stale(t) : t \in BagToSet(b)} |->
        CopiesIn(u, b) +
        (IF u.kind = "load"
         THEN CopiesIn([u EXCEPT !.current = TRUE], b)
              + CopiesIn([u EXCEPT !.built = TRUE], b)
              + CopiesIn([u EXCEPT !.current = TRUE, !.built = TRUE], b)
         ELSE 0)]

\* What `pip list --user` can report: any set of names (packages come and
\* go outside this program too) without those this program has uninstalled.
Listings == SUBSET (Names \ uninstalled)

\* A worker that goes on with what it has when the listing raised.
AfterListingGoesOn(return_code) == "replace"

\* Lines 165 and 203: an exception of get_local_packages (the exit code of
\* `pip list` is not 0, check=True) takes the worker to the except block.
AfterListing(return_code) ==
    IF return_code = 0 THEN "replace" ELSE "except"

\* Lines 166-172: get_local_packages returns a listing or raises; the
\* worker's return_code is the exit code of its `pip list`.
LoadList(t) ==
    /\ t.kind = "load" /\ t.pc = "list"
    /\ \/ threads' = Goto(threads, t,
               [t EXCEPT !.pc = AfterListing(1), !.return_code = 1])
       \/ \E listed \in Listings :
            threads' = Goto(threads, t,
               [t EXCEPT !.pc = AfterListing(0),
                         !.new_packages_data = listed])
    /\ lastLog' = <<>>
    /\ UNCHANGED <<is_busy, packages_data, size_cache, cache_file,
                   cache_save_lock, active_size_calculations, main_lock,
                   size_calculation_lock, ui, uninstalled, busy_note,
                   total_label, ops, idle_queue>>

\* A table that keeps the records it had and adds the new names.
NewTableMerged(listed, old) ==
    [n \in listed \cup DOMAIN old |->
        IF n \in DOMAIN old THEN old[n] ELSE NewPackage]

\* Lines 168-172: new_packages_data, one new Package per listed name.
NewTable(listed, old) == [n \in listed |-> NewPackage]

\* Lines 174-175: the table is replaced under _main_lock.
LoadReplace(t) ==
    /\ t.kind = "load" /\ t.pc = "replace"
    /\ ~main_lock
    /\ packages_data' = NewTable(t.new_packages_data, packages_data)
    /\ threads' = Spawn(MarkStale(Exit(threads, t)),
                        [t EXCEPT !.pc = "notify", !.built = TRUE])
    /\ lastLog' = <<>>
    /\ UNCHANGED <<is_busy, size_cache, cache_file, cache_save_lock,
                   active_size_calculations, main_lock, size_calculation_lock,
                   ui, uninstalled, busy_note, total_label, ops, idle_queue>>

\* Lines 178-183: the notifications, and the for loop takes the dict that
\* self.packages_data is now.
LoadNotify(t) ==
    /\ t.kind = "load" /\ t.pc = "notify"
    /\ threads' = Goto(threads, t,
          [t EXCEPT !.pc = "loop", !.todo = DOMAIN packages_data,
                    !.current = TRUE])
    /\ lastLog' = <<>>
    /\ UNCHANGED <<is_busy, packages_data, size_cache, cache_file,
                   cache_save_lock, active_size_calculations, main_lock,
                   size_calculation_lock, ui, uninstalled, busy_note,
                   total_label, ops, idle_queue>>

\* A loop that finds no name in the cache.
InCacheNever(name, cache) == FALSE

\* Line 184: `name in self.size_cache`.
InCache(name, cache) == name \in DOMAIN cache

\* Lines 183-190: one iteration of the loop, up to the call of
\* calculate_size_for_package.
LoadLoop(t) ==
    /\ t.kind = "load" /\ t.pc = "loop" /\ t.todo # {}
    /\ LET name == FirstName(t.todo)
           left == t.todo \ {name}
       IN IF InCache(name, size_cache)
          THEN /\ packages_data' =
                    IF t.current
                    THEN [packages_data EXCEPT
                            ![name].size_str = size_cache[name],
                            ![name].size_bytes =
                                ParseSizeStrToBytes(size_cache[name])]
                    ELSE packages_data
               /\ threads' = Goto(threads, t, [t EXCEPT !.todo = left])
          ELSE /\ packages_data' =
                    IF t.current
                    THEN [packages_data EXCEPT ![name].size_str = Pending]
                    ELSE packages_data
               /\ threads' = Goto(threads, t,
                    [t EXCEPT !.todo = left, !.name = name,
                              !.pc = "schedule",
                              !.num_to_calculate = t.num_to_calculate + 1])
    /\ lastLog' = <<>>
    /\ UNCHANGED <<is_busy, size_cache, cache_file, cache_save_lock,
                   active_size_calculations, main_lock, size_calculation_lock,
                   ui, uninstalled, busy_note, total_label, ops, idle_queue>>

\* An adjustment that forgets the decrement.
AdjustedCountNoDecrement(count, calculation_starting) ==
    IF calculation_starting THEN count + 1 ELSE count

\* _adjust_ui_for_ongoing_calculations: the counter after the call.
AdjustedCount(count, calculation_starting) ==
    IF calculation_starting THEN count + 1 ELSE count - 1

\* Line 191: calculate_size_for_package raises the counter under
\* _size_calculation_lock and starts the size worker.
LoadSchedule(t) ==
    /\ t.kind = "load" /\ t.pc = "schedule"
    /\ ~size_calculation_lock
    /\ active_size_calculations' = AdjustedCount(active_size_calculations, TRUE)
    /\ total_label' = IF active_size_calculations' = 1
                      THEN CalculatingLabel ELSE total_label
    /\ threads' = Spawn(Goto(threads, t, [t EXCEPT !.pc = "loop", !.name = ""]),
                        Thread("size", "calc", "", t.name))
    /\ lastLog' = <<>>
    /\ UNCHANGED <<is_busy, packages_data, size_cache, cache_file,
                   cache_save_lock, main_lock, size_calculation_lock, ui,
                   uninstalled, busy_note, ops, idle_queue>>

UpdatesThread == Thread("updates", "run", "", "")

\* Lines 193-201 after the loop: with nothing to calculate the total is
\* computed and the operation is about to end; otherwise phase 2 starts.
LoadAfterLoop(t) ==
    /\ t.kind = "load" /\ t.pc = "loop" /\ t.todo = {}
    /\ IF t.num_to_calculate = 0
       THEN /\ lastLog' = <<>>
            /\ total_label' = TotalLabel(packages_data)
            /\ threads' = Goto(threads, t, [t EXCEPT !.pc = "end"])
       ELSE /\ lastLog' = <<>>
            /\ total_label' = total_label
            /\ threads' = Spawn(Exit(threads, t), UpdatesThread)
    /\ UNCHANGED <<is_busy, packages_data, size_cache, cache_file,
                   cache_save_lock, active_size_calculations, main_lock,
                   size_calculation_lock, ui, uninstalled, busy_note, ops,
                   idle_queue>>

\* A worker that returns after _end_operation.
LoadEndReturning(t) ==
    /\ t.kind = "load" /\ t.pc = "end"
    /\ EndOperation
    /\ threads' = Exit(threads, t)
    /\ lastLog' = <<>>
    /\ UNCHANGED <<packages_data, size_cache, cache_file, cache_save_lock,
                   active_size_calculations, main_lock, size_calculation_lock,
                   ui, uninstalled, total_label, ops, idle_queue>>

\* Lines 198-201: _end_operation, then phase 2 starts.
LoadEnd(t) ==
    /\ t.kind = "load" /\ t.pc = "end"
    /\ EndOperation
    /\ threads' = Spawn(Exit(threads, t), UpdatesThread)
    /\ lastLog' = <<>>
    /\ UNCHANGED <<packages_data, size_cache, cache_file, cache_save_lock,
                   active_size_calculations, main_lock, size_calculation_lock,
                   ui, uninstalled, total_label, ops, idle_queue>>

CriticalLine == "A critical error occurred while loading local packages"

\* Lines 203-205: the except block.
LoadExcept(t) ==
    /\ t.kind = "load" /\ t.pc = "except"
    /\ EndOperation
    /\ threads' = Exit(threads, t)
    /\ lastLog' = <<CriticalLine>>
    /\ UNCHANGED <<packages_data, size_cache, cache_file, cache_save_lock,
                   active_size_calculations, main_lock, size_calculation_lock,
                   ui, uninstalled, total_label, ops, idle_queue>>

\* ------------------------------------- calculate_size_for_package.worker

CancelledLine == "Calculation cancelled (package removed)."

\* A write-back that does not look at the table.
StillInTableUnchecked(name, tbl) == TRUE

\* Line 291: the write-back happens iff the name is still in the table.
StillInTable(name, tbl) == name \in DOMAIN tbl

\* Lines 288-298: the size is computed, _main_lock is taken and either the
\* cancelled branch is entered or the record and the cache are written.
SizeWriteBackOf(t, results) ==
    /\ t.kind = "size" /\ t.pc = "calc"
    /\ ~main_lock
    /\ main_lock' = TRUE
    /\ \E r \in results :
         IF StillInTable(t.name, packages_data)
         THEN /\ packages_data' =
                   [n \in DOMAIN packages_data |->
                       IF n = t.name
                       THEN [packages_data[n] EXCEPT
                               !.size_bytes = r.size_bytes,
                               !.size_str = r.size_str]
                       ELSE packages_data[n]]
              /\ size_cache' = With(size_cache, t.name, r.size_str)
              /\ threads' = Goto(threads, t, [t EXCEPT !.pc = "save"])
              /\ lastLog' = <<>>
         ELSE /\ threads' = Goto(threads, t, [t EXCEPT !.pc = "cancel_adjust"])
              /\ lastLog' = <<CancelledLine>>
              /\ UNCHANGED <<packages_data, size_cache>>
    /\ UNCHANGED <<is_busy, cache_file, cache_save_lock,
                   active_size_calculations, size_calculation_lock, ui,
                   uninstalled, busy_note, total_label, ops, idle_queue>>

SizeWriteBack(t) == SizeWriteBackOf(t, SizeResults)

\* Lines 299-302: save_size_cache inside _main_lock, then the lock is
\* released and the row update and the size line are queued.
SizeSave(t) ==
    /\ t.kind = "size" /\ t.pc = "save"
    /\ cache_file' = size_cache
    /\ main_lock' = FALSE
    /\ threads' = Goto(threads, t, [t EXCEPT !.pc = "adjust"])
    /\ lastLog' = <<>>
    /\ UNCHANGED <<is_busy, packages_data, size_cache,
                   active_size_calculations, size_calculation_lock, ui,
                   uninstalled, busy_note, total_label, ops, cache_save_lock,
                   idle_queue>>

\* Lines 293 and 303 with lines 309-318: the counter is lowered under
\* _size_calculation_lock.  At 0 the total is queued and the thread goes on
\* to _end_operation with _size_calculation_lock still held; the cancelled
\* branch (pc "cancel_adjust") runs all this inside _main_lock.
SizeAdjust(t) ==
    /\ t.kind = "size" /\ t.pc \in {"adjust", "cancel_adjust"}
    /\ ~size_calculation_lock
    /\ active_size_calculations' = AdjustedCount(active_size_calculations, FALSE)
    /\ IF active_size_calculations' = 0
       THEN /\ total_label' = TotalLabel(packages_data)
            /\ lastLog' = <<>>
            /\ size_calculation_lock' = TRUE
            /\ main_lock' = main_lock
            /\ threads' = Goto(threads, t,
                 [t EXCEPT !.pc = IF t.pc = "adjust" THEN "end" ELSE "cancel_end"])
       ELSE /\ total_label' = total_label
            /\ lastLog' = <<>>
            /\ size_calculation_lock' = FALSE
            /\ main_lock' = IF t.pc = "cancel_adjust" THEN FALSE ELSE main_lock
            /\ threads' = Exit(threads, t)
    /\ UNCHANGED <<is_busy, packages_data, size_cache, cache_file,
                   cache_save_lock, ui, uninstalled, busy_note, ops,
                   idle_queue>>

\* Line 320: _end_operation called from _adjust_ui_for_ongoing_calculations;
\* on return both with blocks are left.
SizeEnd(t) ==
    /\ t.kind = "size" /\ t.pc \in {"end", "cancel_end"}
    /\ EndOperation
    /\ size_calculation_lock' = FALSE
    /\ main_lock' = FALSE
    /\ threads' = Exit(threads, t)
    /\ lastLog' = <<>>
    /\ UNCHANGED <<packages_data, size_cache, cache_file, cache_save_lock,
                   active_size_calculations, ui, uninstalled, total_label,
                   ops, idle_queue>>

\* ------------------------------------------- _check_for_updates_worker

NewerVersion == "2.0"

\* The status messages of get_outdated_packages; None is "".
OfflineLine == "Offline: Skipping check for outdated packages."

TimeoutLine == "Network Timeout: Could not check for updates."

NetworkErrorLine == "Network Error: Could not fetch updates."

NoStatus == ""

\* What running the outdated-list command can come to (lines 76-86): the
\* timeout, another exception (also one of json.loads), or an exit code
\* with the names its output lists.
CommandOutcomes ==
    {[kind |-> k, code |-> 0, listed |-> {}] : k \in {"timeout", "error"}}
    \cup {[kind |-> "exit", code |-> c, listed |-> S] :
              c \in {0, 1}, S \in SUBSET Names}

\* Lines 75-86: the mapping and the status after the command was run.
OutdatedAfterCommand(outcome) ==
    CASE outcome.kind = "timeout" ->
            [outdated_info |-> {}, status_message |-> TimeoutLine]
      [] outcome.kind = "error" ->
            [outdated_info |-> {}, status_message |-> NetworkErrorLine]
      [] OTHER ->
            [outdated_info |-> IF outcome.code = 0 THEN outcome.listed ELSE {},
             status_message |-> NoStatus]

\* A gateway that runs the command whatever the probe says.
CommandIsRunAlways(connected) == TRUE

\* Line 72: the command is run iff _has_internet_connection() is true.
CommandIsRun(connected) == connected

\* PipService.get_outdated_packages: the pair it returns.
GetOutdatedPackages(connected, outcome) ==
    IF CommandIsRun(connected)
    THEN OutdatedAfterCommand(outcome)
    ELSE [outdated_info |-> {}, status_message |-> OfflineLine]

\* What get_outdated_packages can return.
OutdatedResults ==
    {GetOutdatedPackages(connected, outcome) :
        connected \in BOOLEAN, outcome \in CommandOutcomes}

\* A loop that writes latest_version for every name of the mapping, in the
\* table or not.
WithLatestUnguarded(tbl, info) ==
    [n \in DOMAIN tbl \cup info |->
        IF n \in info
        THEN [(IF n \in DOMAIN tbl THEN tbl[n] ELSE NewPackage)
                 EXCEPT !.latest_version = NewerVersion]
        ELSE tbl[n]]

\* Lines 222-224: latest_version is written for the names of the mapping
\* that are in the table.
WithLatest(tbl, info) ==
    [n \in DOMAIN tbl |->
        IF n \in info
        THEN [tbl[n] EXCEPT !.latest_version = NewerVersion]
        ELSE tbl[n]]

\* Lines 215-226 for the mapping `info`: an empty mapping returns before
\* the lock; otherwise latest_version is written under _main_lock for the
\* names that are in the table.  Then the worker t returns.
WriteLatestVersions(t, info) ==
    /\ IF info = {}
       THEN packages_data' = packages_data
       ELSE /\ ~main_lock
            /\ packages_data' = WithLatest(packages_data, info)
    /\ lastLog' = <<>>
    /\ threads' = Exit(threads, t)
    /\ UNCHANGED <<is_busy, size_cache, cache_file, cache_save_lock,
                   active_size_calculations, main_lock, size_calculation_lock,
                   ui, uninstalled, busy_note, total_label, ops, idle_queue>>

\* Phase 2, the gateway call and the use of its result in one step.
CheckForUpdatesWorker(t) ==
    /\ t.kind = "updates" /\ t.pc = "run"
    /\ \E r \in OutdatedResults : WriteLatestVersions(t, r.outdated_info)

\* ------------------------------------------------------------------- Next

Next ==
    \/ load_packages
    \/ install_package
    \/ update_package
    \/ uninstall_package
    \/ clear_pip_cache
    \/ check_dependencies
    \/ show_package_details
    \/ UiBegin
    \/ \E t \in Running : PipRun(t)
    \/ \E t \in Running : PipCallback(t)
    \/ \E t \in Running : PipFinally(t)
    \/ \E t \in Running : CacheSizeWorker(t)
    \/ \E t \in Running : CheckDependenciesWorker(t)
    \/ \E t \in Running : CheckDependenciesFinally(t)
    \/ \E t \in Running : DetailsWorker(t)
    \/ \E t \in Running : DetailsFinally(t)
    \/ \E t \in Running : LoadList(t)
    \/ \E t \in Running : LoadReplace(t)
    \/ \E t \in Running : LoadNotify(t)
    \/ \E t \in Running : LoadLoop(t)
    \/ \E t \in Running : LoadSchedule(t)
    \/ \E t \in Running : LoadAfterLoop(t)
    \/ \E t \in Running : LoadEnd(t)
    \/ \E t \in Running : LoadExcept(t)
    \/ \E t \in Running : SizeWriteBack(t)
    \/ \E t \in Running : SizeSave(t)
    \/ \E t \in Running : SizeAdjust(t)
    \/ \E t \in Running : SizeEnd(t)
    \/ \E t \in Running : CheckForUpdatesWorker(t)

Spec == Init /\ [][Next]_vars

\* ------------------------------------------- refreshes only, one more of them

MaxRefreshes == 3

\* The user asks for nothing but refreshes.
NextRefresh ==
    \/ LoadPackagesBelow(MaxRefreshes)
    \/ UiBegin
    \/ \E t \in Running : LoadList(t)
    \/ \E t \in Running : LoadReplace(t)
    \/ \E t \in Running : LoadNotify(t)
    \/ \E t \in Running : LoadLoop(t)
    \/ \E t \in Running : LoadSchedule(t)
    \/ \E t \in Running : LoadAfterLoop(t)
    \/ \E t \in Running : LoadEnd(t)
    \/ \E t \in Running : LoadExcept(t)
    \/ \E t \in Running : SizeWriteBack(t)
    \/ \E t \in Running : SizeSave(t)
    \/ \E t \in Running : SizeAdjust(t)
    \/ \E t \in Running : SizeEnd(t)
    \/ \E t \in Running : CheckForUpdatesWorker(t)

SpecRefresh == Init /\ [][NextRefresh]_vars

\* ------------------------------- the outdated check, one gateway step at a time

\* Records of a table whose sizes have all been calculated.
SizedRecords ==
    {[latest_version |-> "", size_str |-> r.size_str,
      size_bytes |-> r.size_bytes] : r \in SizeResults}

\* The coordinator after a refresh whose size calculations have finished,
\* with the outdated-check worker that refresh has started.
InitOutdated ==
    /\ \E listed \in SUBSET Names :
          /\ packages_data \in [listed -> SizedRecords]
          /\ size_cache = [n \in listed |-> packages_data[n].size_str]
    /\ cache_file = size_cache
    /\ cache_save_lock = FALSE
    /\ idle_queue = <<>>
    /\ total_label = TotalLabel(packages_data)
    /\ is_busy = FALSE /\ busy_note = FALSE
    /\ active_size_calculations = 0
    /\ main_lock = FALSE /\ size_calculation_lock = FALSE
    /\ threads = SetToBag({UpdatesThread})
    /\ ui = [pc |-> "idle", op |-> "", name |-> "", deleted |-> FALSE]
    /\ uninstalled = {}
    /\ lastLog = <<>>
    /\ ops = 1

\* Line 210 with get_outdated_packages, lines 69-73: the reachability
\* probe; without a connection the command is not run.
UpdatesProbe(t) ==
    /\ t.kind = "updates" /\ t.pc = "run"
    /\ \E connected \in BOOLEAN :
         threads' = Goto(threads, t,
            IF CommandIsRun(connected)
            THEN [t EXCEPT !.pc = "command", !.connected = connected]
            ELSE [t EXCEPT !.pc = "report", !.connected = connected,
                           !.status_message = OfflineLine])
    /\ lastLog' = <<>>
    /\ UNCHANGED <<is_busy, packages_data, size_cache, cache_file,
                   cache_save_lock, active_size_calculations, main_lock,
                   size_calculation_lock, ui, uninstalled, busy_note,
                   total_label, ops, idle_queue>>

\* get_outdated_packages, lines 75-88: the command is run and the pair is
\* returned.
UpdatesCommand(t) ==
    /\ t.kind = "updates" /\ t.pc = "command"
    /\ \E outcome \in CommandOutcomes :
         threads' = Goto(threads, t,
            [t EXCEPT !.pc = "report",
                      !.return_code = outcome.code,
                      !.outdated_info =
                          OutdatedAfterCommand(outcome).outdated_info,
                      !.status_message =
                          OutdatedAfterCommand(outcome).status_message])
    /\ lastLog' = <<>>
    /\ UNCHANGED <<is_busy, packages_data, size_cache, cache_file,
                   cache_save_lock, active_size_calculations, main_lock,
                   size_calculation_lock, ui, uninstalled, busy_note,
                   total_label, ops, idle_queue>>

\* _check_for_updates_worker, lines 212-232, with the pair it has got.
UpdatesReport(t) ==
    /\ t.kind = "updates" /\ t.pc = "report"
    /\ WriteLatestVersions(t, t.outdated_info)

NextOutdated ==
    \/ \E t \in Running : UpdatesProbe(t)
    \/ \E t \in Running : UpdatesCommand(t)
    \/ \E t \in Running : UpdatesReport(t)

SpecOutdated == InitOutdated /\ [][NextOutdated]_vars

\* ------------------------------------ the size-cache store (cache_service.py)
\*
\* Here a dict is the sequence of its items in insertion order, and
\* CACHE_FILE is whether it exists and its text, a sequence of pieces: the
\* braces of a JSON object, one piece per item, BadBytes for bytes that are
\* no text in the encoding open() uses, and Gap for what a file that was
\* written past its end reads in between.

MaxSaves == 2

Item(key, value) == [key |-> key, value |-> value]

\* The dicts handed to save_size_cache.
CacheInputs ==
    {<<>>,
     <<Item("a", KB15)>>, <<Item("a", NotFound)>>, <<Item("b", KB15)>>,
     <<Item("a", KB15), Item("b", KB15)>>,
     <<Item("b", KB15), Item("a", NotFound)>>}

Piece(tag, key, value) == [tag |-> tag, key |-> key, value |-> value]

OpenBrace == Piece("{", "", Pending)

CloseBrace == Piece("}", "", Pending)

BadBytes == Piece("\\xff", "", Pending)

Gap == Piece("\\0", "", Pending)

ItemPieces(cache_data) ==
    [i \in 1..Len(cache_data) |->
        Piece("item", cache_data[i].key, cache_data[i].value)]

\* A dump that never closes the object.
DumpUnclosed(cache_data) == <<OpenBrace>> \o ItemPieces(cache_data)

\* json.dump(cache_data, f, indent=2), line 31: the text it writes.
Dump(cache_data) ==
    <<OpenBrace>> \o ItemPieces(cache_data) \o <<CloseBrace>>

File(text) == [exists |-> TRUE, text |-> text]

Absent == [exists |-> FALSE, text |-> <<>>]

Prefixes(text) == {SubSeq(text, 1, k) : k \in 0..Len(text)}

\* What CACHE_FILE can be when the program starts: absent, the text of a
\* dict or a part of it (a save that was cut short), or anything else.
InitialFiles ==
    {Absent}
    \cup {File(text) : text \in UNION {Prefixes(Dump(m)) : m \in CacheInputs}}
    \cup {File(<<BadBytes>>),
          File(Dump(<<Item("a", KB15), Item("a", NotFound)>>))}

Decodable(text) == \A i \in 1..Len(text) : text[i] # BadBytes

\* Whether json.load accepts the text: it is one JSON object.
ValidJSON(text) ==
    /\ Len(text) >= 2
    /\ text[1] = OpenBrace /\ text[Len(text)] = CloseBrace
    /\ \A i \in 2..(Len(text) - 1) : text[i].tag = "item"

\* d[key] = value on a dict: an existing key keeps its place.
RECURSIVE SetItem(_, _)
SetItem(d, item) ==
    IF d = <<>> THEN <<item>>
    ELSE IF Head(d).key = item.key THEN <<item>> \o Tail(d)
    ELSE <<Head(d)>> \o SetItem(Tail(d), item)

RECURSIVE DictOf(_)
DictOf(pieces) ==
    IF pieces = <<>> THEN <<>>
    ELSE SetItem(DictOf(SubSeq(pieces, 1, Len(pieces) - 1)),
                 Item(pieces[Len(pieces)].key, pieces[Len(pieces)].value))

\* json.load(f), line 21, of a valid document.
JsonValue(text) == DictOf(SubSeq(text, 2, Len(text) - 1))

Returns(value) == [raised |-> FALSE, value |-> value]

Raises == [raised |-> TRUE, value |-> <<>>]

\* load_size_cache, lines 15-24; io is whether opening and reading work.
\* UnicodeDecodeError is a ValueError that line 22 does not name.
load_size_cache(file, io) ==
    IF ~file.exists THEN Returns(<<>>)
    ELSE IF io = "IOError" THEN Returns(<<>>)
    ELSE IF ~Decodable(file.text) THEN Raises
    ELSE IF ~ValidJSON(file.text) THEN Returns(<<>>)
    ELSE Returns(JsonValue(file.text))

IOOutcomes == {"ok", "IOError"}

\* f.write of one piece by a file object that has written `written` pieces
\* since it opened the file.
WriteAt(text, written, piece) ==
    [i \in 1..(IF Len(text) > written THEN Len(text) ELSE written + 1) |->
        IF i = written + 1 THEN piece
        ELSE IF i <= Len(text) THEN text[i] ELSE Gap]

\* A fresh process, before AppLogic.__init__; the threads of the last one
\* are gone.
InitCache ==
    /\ cache_file \in InitialFiles
    /\ cache_save_lock = FALSE
    /\ idle_queue = <<>>
    /\ size_cache = <<>>
    /\ packages_data = EmptyMap
    /\ total_label = [text |-> "", bytes |-> 0]
    /\ is_busy = FALSE /\ busy_note = FALSE
    /\ active_size_calculations = 0
    /\ main_lock = FALSE /\ size_calculation_lock = FALSE
    /\ threads = EmptyBag
    /\ ui = [pc |-> "start", op |-> "", name |-> "", deleted |-> FALSE]
    /\ uninstalled = {}
    /\ lastLog = <<>>
    /\ ops = 0

CacheFrame ==
    UNCHANGED <<is_busy, packages_data, active_size_calculations, main_lock,
                size_calculation_lock, uninstalled, busy_note, total_label,
                idle_queue>>

\* The process ends, its daemon threads with it wherever they are, and the
\* next one starts: AppLogic.__init__ calls load_size_cache (app_logic.py
\* line 25).
CacheLoad ==
    /\ \E io \in IOOutcomes :
          IF load_size_cache(cache_file, io).raised
          THEN /\ ui' = [pc |-> "raised", op |-> "", name |-> "", deleted |-> FALSE]
               /\ size_cache' = <<>>
          ELSE /\ ui' = [pc |-> "idle", op |-> "", name |-> "", deleted |-> FALSE]
               /\ size_cache' = load_size_cache(cache_file, io).value
    /\ threads' = EmptyBag
    /\ cache_save_lock' = FALSE
    /\ ops' = 0
    /\ lastLog' = <<>>
    /\ UNCHANGED cache_file
    /\ CacheFrame

\* A caller changes the size cache and calls save_size_cache with it.
CacheSaveCall ==
    /\ ui.pc = "idle"
    /\ ops < MaxSaves
    /\ ops' = ops + 1
    /\ \E m \in CacheInputs :
          /\ size_cache' = m
          /\ threads' = Spawn(threads,
                [Thread("save", "lock", "", "") EXCEPT !.cache_data = m])
    /\ lastLog' = <<>>
    /\ UNCHANGED <<cache_file, cache_save_lock, ui>>
    /\ CacheFrame

\* A lock that is never found held.
LockFreeAlways(lock) == TRUE

LockFree(lock) == ~lock

\* Line 28: with _cache_save_lock.
SaveAcquire(t) ==
    /\ t.kind = "save" /\ t.pc = "lock"
    /\ LockFree(cache_save_lock)
    /\ cache_save_lock' = TRUE
    /\ threads' = Goto(threads, t, [t EXCEPT !.pc = "open"])
    /\ lastLog' = <<>>
    /\ UNCHANGED <<cache_file, size_cache, ui, ops>>
    /\ CacheFrame

SaveErrorLine == "Error saving size cache"

\* Line 30: open(CACHE_FILE, 'w') empties the file, or fails (lines 32-34).
SaveOpen(t) ==
    /\ t.kind = "save" /\ t.pc = "open"
    /\ \E io \in IOOutcomes :
          IF io = "ok"
          THEN /\ cache_file' = File(<<>>)
               /\ threads' = Goto(threads, t, [t EXCEPT !.pc = "dump"])
               /\ lastLog' = <<>>
          ELSE /\ threads' = Goto(threads, t, [t EXCEPT !.pc = "release"])
               /\ lastLog' = <<SaveErrorLine>>
               /\ UNCHANGED cache_file
    /\ UNCHANGED <<cache_save_lock, size_cache, ui, ops>>
    /\ CacheFrame

\* Line 31: the next piece of the text reaches the file, or the write fails
\* (lines 32-34).
SaveWrite(t) ==
    /\ t.kind = "save" /\ t.pc = "dump"
    /\ t.written < Len(Dump(t.cache_data))
    /\ \E io \in IOOutcomes :
          IF io = "ok"
          THEN /\ cache_file' =
                    File(WriteAt(cache_file.text, t.written,
                                 Dump(t.cache_data)[t.written + 1]))
               /\ threads' = Goto(threads, t,
                                  [t EXCEPT !.written = t.written + 1])
               /\ lastLog' = <<>>
          ELSE /\ threads' = Goto(threads, t, [t EXCEPT !.pc = "release"])
               /\ lastLog' = <<SaveErrorLine>>
               /\ UNCHANGED cache_file
    /\ UNCHANGED <<cache_save_lock, size_cache, ui, ops>>
    /\ CacheFrame

\* The end of line 31: the whole text is written and the file is closed.
SaveClose(t) ==
    /\ t.kind = "save" /\ t.pc = "dump"
    /\ t.written = Len(Dump(t.cache_data))
    /\ threads' = Goto(threads, t,
                       [t EXCEPT !.pc = "release", !.success = TRUE])
    /\ lastLog' = <<>>
    /\ UNCHANGED <<cache_file, cache_save_lock, size_cache, ui, ops>>
    /\ CacheFrame

\* The end of the with block of line 28: save_size_cache returns.
SaveRelease(t) ==
    /\ t.kind = "save" /\ t.pc = "release"
    /\ cache_save_lock' = FALSE
    /\ threads' = Exit(threads, t)
    /\ lastLog' = <<>>
    /\ UNCHANGED <<cache_file, size_cache, ui, ops>>
    /\ CacheFrame

NextCache ==
    \/ CacheLoad
    \/ CacheSaveCall
    \/ \E t \in Running : SaveAcquire(t)
    \/ \E t \in Running : SaveOpen(t)
    \/ \E t \in Running : SaveWrite(t)
    \/ \E t \in Running : SaveClose(t)
    \/ \E t \in Running : SaveRelease(t)

SpecCache == InitCache /\ [][NextCache]_vars

\* -------------------------------- the size worker over a range of byte totals

Near(n) == {n - 1, n, n + 1}

\* Byte totals of a package's files: around each threshold of lines 109-115,
\* on ties of the rounding, and in between.
ByteTotals ==
    {0, 1, 512, 1000, 1280, 1536, 10 * 1024, 1000 * 1000, 1179648,
     2097152, 1000 * 1000 * 999, 1000 * 1000 * 1000, 2147483647}
    \cup Near(1024) \cup Near(1024 * 1024) \cup Near(1024 * 1024 * 999)
    \cup Near(1024 * 1024 * 1024)
    \cup {1024 * 1024 * k + 5243 : k \in 1..24}

\* A refresh has listed one package that the cache does not hold, has
\* scheduled its size calculation, and its load worker has ended.
InitFormat ==
    /\ packages_data = [n \in {FirstName(Names)} |-> NewPackage]
    /\ size_cache = EmptyMap
    /\ cache_file = EmptyMap
    /\ cache_save_lock = FALSE
    /\ idle_queue = <<>>
    /\ total_label = CalculatingLabel
    /\ is_busy = TRUE /\ busy_note = TRUE
    /\ active_size_calculations = 1
    /\ main_lock = FALSE /\ size_calculation_lock = FALSE
    /\ threads = SetToBag({Thread("size", "calc", "", FirstName(Names))})
    /\ ui = [pc |-> "idle", op |-> "", name |-> "", deleted |-> FALSE]
    /\ uninstalled = {}
    /\ lastLog = <<>>
    /\ ops = 1

\* Lines 288-298 with any byte total for the files of the package.
SizeMeasure(t) ==
    SizeWriteBackOf(t, {get_package_size(Measured(n)) : n \in ByteTotals})

NextFormat ==
    \/ \E t \in Running : SizeMeasure(t)
    \/ \E t \in Running : SizeSave(t)
    \/ \E t \in Running : SizeAdjust(t)
    \/ \E t \in Running : SizeEnd(t)

SpecFormat == InitFormat /\ [][NextFormat]_vars

\* ------------- _begin_operation and _end_operation, one statement at a time

\* Lines 52-56 run by the UI thread: under _main_lock the flag is tested and
\* set; a rejected call queues its line and returns.
BeginOperationWrite ==
    /\ ui.pc = "begin"
    /\ ~main_lock
    /\ IF BeginGranted(is_busy)
       THEN /\ is_busy' = TRUE
            /\ lastLog' = <<>>
            /\ ui' = [ui EXCEPT !.pc = "set_busy"]
       ELSE /\ is_busy' = is_busy
            /\ lastLog' = <<AlreadyLine>>
            /\ ui' = [pc |-> "idle", op |-> "", name |-> "", deleted |-> FALSE]
    /\ UNCHANGED <<packages_data, size_cache, cache_file, cache_save_lock,
                   active_size_calculations, main_lock, size_calculation_lock,
                   threads, uninstalled, busy_note, total_label, ops,
                   idle_queue>>

\* Lines 58-61 run by the UI thread, the lock released: set_busy(True) is
\* queued, then the public method starts its worker.
BeginOperationSetBusy ==
    /\ ui.pc = "set_busy"
    /\ busy_note' = TRUE
    /\ threads' = Spawn(threads, WorkerFor(ui.op, ui.name))
    /\ lastLog' = <<>>
    /\ ui' = [pc |-> "idle", op |-> "", name |-> "", deleted |-> FALSE]
    /\ UNCHANGED <<is_busy, packages_data, size_cache, cache_file,
                   cache_save_lock, active_size_calculations, main_lock,
                   size_calculation_lock, uninstalled, total_label, ops,
                   idle_queue>>

\* Lines 64-65 run by a worker in its finally block: the flag is cleared
\* under _main_lock.
EndOperationWrite(t) ==
    /\ t.kind \in {"pip", "deps", "details"} /\ t.pc = "finally"
    /\ ~main_lock
    /\ is_busy' = FALSE
    /\ threads' = Goto(threads, t, [t EXCEPT !.pc = "set_busy"])
    /\ lastLog' = <<>>
    /\ UNCHANGED <<packages_data, size_cache, cache_file, cache_save_lock,
                   active_size_calculations, main_lock, size_calculation_lock,
                   ui, uninstalled, busy_note, total_label, ops, idle_queue>>

\* Line 66 run by the worker, the lock released: set_busy(False) is queued
\* and the worker leaves (starting the cache-size worker, line 254).
EndOperationSetBusy(t) ==
    /\ t.pc = "set_busy"
    /\ busy_note' = FALSE
    /\ threads' = Exit(threads, t) (+) CacheWorkers(t, t.success)
    /\ lastLog' = <<>>
    /\ UNCHANGED <<is_busy, packages_data, size_cache, cache_file,
                   cache_save_lock, active_size_calculations, main_lock,
                   size_calculation_lock, ui, uninstalled, total_label, ops,
                   idle_queue>>

\* The operations whose worker always ends with _end_operation: cache purge,
\* dependency check and details.
NextBusy ==
    \/ clear_pip_cache
    \/ check_dependencies
    \/ show_package_details
    \/ BeginOperationWrite
    \/ BeginOperationSetBusy
    \/ \E t \in Running : PipRun(t)
    \/ \E t \in Running : CheckDependenciesWorker(t)
    \/ \E t \in Running : DetailsWorker(t)
    \/ \E t \in Running : EndOperationWrite(t)
    \/ \E t \in Running : EndOperationSetBusy(t)
    \/ \E t \in Running : CacheSizeWorker(t)

SpecBusy == Init /\ [][NextBusy]_vars

\* ------------------------------------ pipman.py, the monolithic window

\* load_packages_threaded.worker as it starts.
ReloadWorker == Thread("reload", "run", "", "")

\* A callback handed to GLib.idle_add: the function and what its closure or
\* arguments hold.
Callback(fn, op, name) ==
    [fn |-> fn, op |-> op, name |-> name, return_code |-> 0,
     packages |-> {}, outdated_info |-> {}, size |-> Pending]

\* PipManagerWindow.__init__, lines 111-121: the constructor ends with
\* load_packages_threaded(), so the window starts busy with a reload worker.
InitMonolith ==
    /\ is_busy = TRUE
    /\ packages_data = EmptyMap
    /\ cache_file \in {EmptyMap, [x \in {"a"} |-> KB15]}
    /\ size_cache = cache_file
    /\ cache_save_lock = FALSE
    /\ idle_queue = <<>>
    /\ active_size_calculations = 0
    /\ main_lock = FALSE
    /\ size_calculation_lock = FALSE
    /\ threads = SetToBag({ReloadWorker})
    /\ ui = [pc |-> "idle", op |-> "", name |-> "", deleted |-> FALSE]
    /\ uninstalled = {}
    /\ lastLog = <<>>
    /\ busy_note = FALSE
    /\ total_label = [text |-> "", bytes |-> 0]
    /\ ops = 0

\* What the monolith has no counterpart for.
MonolithFrame ==
    UNCHANGED <<cache_save_lock, active_size_calculations, main_lock,
                size_calculation_lock, ui, busy_note, total_label>>

\* A signal handler runs on the main thread, the handlers so far being
\* below the bound.
Clicked == ops < MaxOps /\ ops' = ops + 1

\* Lines 183-205, run_pip_command_threaded on the main thread: nothing when
\* busy, otherwise set_ui_busy(True) and the worker starts.
run_pip_command_threaded(op, name) ==
    IF is_busy
    THEN UNCHANGED <<is_busy, threads>>
    ELSE /\ is_busy' = TRUE
         /\ threads' = Spawn(threads, Thread("pip", "run", op, name))

\* Lines 276-289.
on_install_clicked ==
    /\ Clicked
    /\ \E package_name \in Names \cup {""} :
         IF package_name = ""
         THEN /\ lastLog' = <<PleaseLine>>
              /\ UNCHANGED <<is_busy, threads>>
         ELSE /\ lastLog' = <<>>
              /\ run_pip_command_threaded("install", package_name)
    /\ UNCHANGED <<packages_data, size_cache, cache_file, uninstalled,
                   idle_queue>>
    /\ MonolithFrame

\* Lines 291-297: the selected row names a package of the table.
on_update_clicked ==
    /\ Clicked
    /\ \E name \in DOMAIN packages_data :
         run_pip_command_threaded("update", name)
    /\ lastLog' = <<>>
    /\ UNCHANGED <<packages_data, size_cache, cache_file, uninstalled,
                   idle_queue>>
    /\ MonolithFrame

\* Lines 330-337, the dialog answered with YES: the cache entry is deleted
\* and the file saved, then the command is started.
on_uninstall_dialog_response ==
    /\ Clicked
    /\ \E name \in DOMAIN packages_data :
         /\ size_cache' = Without(size_cache, name)
         /\ cache_file' =
              IF name \in DOMAIN size_cache THEN size_cache' ELSE cache_file
         /\ run_pip_command_threaded("uninstall", name)
    /\ lastLog' = <<>>
    /\ UNCHANGED <<packages_data, uninstalled, idle_queue>>
    /\ MonolithFrame

\* Lines 207-222, load_packages_threaded on the main thread: the bag of
\* threads after the call.  Nothing is started when busy (line 209).
load_packages_threaded(busy, rest) ==
    IF busy THEN rest ELSE Spawn(rest, ReloadWorker)

\* The refresh button.
on_refresh_clicked ==
    /\ Clicked
    /\ threads' = load_packages_threaded(is_busy, threads)
    /\ is_busy' = TRUE
    /\ lastLog' = <<>>
    /\ UNCHANGED <<packages_data, size_cache, cache_file, uninstalled,
                   idle_queue>>
    /\ MonolithFrame

\* Lines 311-315.
on_check_dependencies_clicked ==
    /\ Clicked
    /\ IF is_busy
       THEN UNCHANGED <<is_busy, threads>>
       ELSE /\ is_busy' = TRUE
            /\ threads' = Spawn(threads, Thread("deps", "run", "deps", ""))
    /\ lastLog' = <<>>
    /\ UNCHANGED <<packages_data, size_cache, cache_file, uninstalled,
                   idle_queue>>
    /\ MonolithFrame

\* Lines 188-203: run_command returns an exit code (never raises) and the
\* worker queues finish_on_main_thread.
MonolithPipWorker(t) ==
    /\ t.kind = "pip" /\ t.pc = "run"
    /\ \E return_code \in ReturnCodes :
         /\ uninstalled' = IF return_code = 0
                           THEN AfterCommand(t.op, t.name)
                           ELSE uninstalled
         /\ idle_queue' = Append(idle_queue,
               [Callback("finish_on_main_thread", t.op, t.name)
                   EXCEPT !.return_code = return_code])
    /\ threads' = Exit(threads, t)
    /\ lastLog' = <<>>
    /\ UNCHANGED <<is_busy, packages_data, size_cache, cache_file, ops>>
    /\ MonolithFrame

\* Lines 316-328: the dependency worker queues its finish_on_main_thread.
MonolithDepsWorker(t) ==
    /\ t.kind = "deps" /\ t.pc = "run"
    /\ idle_queue' = Append(idle_queue, Callback("deps_finish", "deps", ""))
    /\ threads' = Exit(threads, t)
    /\ lastLog' = <<>>
    /\ UNCHANGED <<is_busy, packages_data, size_cache, cache_file,
                   uninstalled, ops>>
    /\ MonolithFrame

\* Lines 213-218: get_packages returns a listing (empty when `pip list`
\* failed) with the outdated names among it, and update_package_list_store
\* is queued; or it raises on output that is no JSON and the line is queued.
ReloadRun(t) ==
    /\ t.kind = "reload" /\ t.pc = "run"
    /\ \/ /\ \E listed \in Listings : \E outdated \in SUBSET listed :
               idle_queue' = Append(idle_queue,
                  [Callback("update_package_list_store", "", "")
                      EXCEPT !.packages = listed,
                             !.outdated_info = outdated])
          /\ lastLog' = <<>>
       \/ /\ idle_queue' = idle_queue
          /\ lastLog' = <<"Error loading packages">>
    /\ threads' = Goto(threads, t, [t EXCEPT !.pc = "finally"])
    /\ UNCHANGED <<is_busy, packages_data, size_cache, cache_file,
                   uninstalled, ops>>
    /\ MonolithFrame

\* Lines 219-220: the finally block queues set_ui_busy(False).
ReloadFinally(t) ==
    /\ t.kind = "reload" /\ t.pc = "finally"
    /\ idle_queue' = Append(idle_queue, Callback("set_ui_busy", "", ""))
    /\ threads' = Exit(threads, t)
    /\ lastLog' = <<>>
    /\ UNCHANGED <<is_busy, packages_data, size_cache, cache_file,
                   uninstalled, ops>>
    /\ MonolithFrame

\* Lines 245-250, calculate_size_for_package_threaded.worker: the size (or
\* "Error") goes into the cache and the file, and the row update is queued.
MonolithSizeWorker(t) ==
    /\ t.kind = "size" /\ t.pc = "calc"
    /\ \E size \in {KB15, ErrorStr} :
         /\ size_cache' = With(size_cache, t.name, size)
         /\ idle_queue' = Append(idle_queue,
               [Callback("update_package_size_in_view", "", t.name)
                   EXCEPT !.size = size])
    /\ cache_file' = size_cache'
    /\ threads' = Exit(threads, t)
    /\ lastLog' = <<>>
    /\ UNCHANGED <<is_busy, packages_data, uninstalled, ops>>
    /\ MonolithFrame

\* The main loop takes the callback queued first.
Dispatched(fn) ==
    /\ idle_queue # <<>>
    /\ Head(idle_queue).fn = fn
    /\ idle_queue' = Tail(idle_queue)

\* Threads the success callbacks of lines 284-286, 297 and 336 start besides
\* the reload: on_install_success also calculates the size of the package.
SizeWorkersFor(cb) ==
    IF cb.op = "install"
    THEN SetToBag({Thread("size", "calc", "", cb.name)})
    ELSE EmptyBag

\* Lines 191-201, finish_on_main_thread: after exit code 0 the callback
\* runs (load_packages_threaded, with is_busy as it is now), then
\* set_ui_busy(False); after a failure only set_ui_busy(False).
finish_on_main_thread ==
    /\ Dispatched("finish_on_main_thread")
    /\ LET cb == Head(idle_queue)
       IN IF cb.return_code = 0
          THEN /\ threads' = load_packages_threaded(is_busy, threads)
                                (+) SizeWorkersFor(cb)
               /\ lastLog' = <<>>
          ELSE /\ threads' = threads
               /\ lastLog' = <<ErrorLine>>
    /\ is_busy' = FALSE
    /\ UNCHANGED <<packages_data, size_cache, cache_file, uninstalled, ops>>
    /\ MonolithFrame

\* Lines 319-324, the dependency check's finish_on_main_thread.
deps_finish ==
    /\ Dispatched("deps_finish")
    /\ is_busy' = FALSE
    /\ lastLog' = <<>>
    /\ UNCHANGED <<packages_data, size_cache, cache_file, threads,
                   uninstalled, ops>>
    /\ MonolithFrame

\* A row of the monolith's table.
Row(is_outdated, display_size) ==
    [is_outdated |-> is_outdated, display_size |-> display_size]

\* Lines 224-239: the table is cleared and rebuilt from the listing, the
\* sizes coming from the cache or "...".
update_package_list_store ==
    /\ Dispatched("update_package_list_store")
    /\ LET cb == Head(idle_queue)
       IN packages_data' =
            [n \in cb.packages |->
                Row(n \in cb.outdated_info,
                    IF n \in DOMAIN size_cache THEN size_cache[n]
                    ELSE Pending)]
    /\ lastLog' = <<>>
    /\ UNCHANGED <<is_busy, size_cache, cache_file, threads, uninstalled,
                   ops>>
    /\ MonolithFrame

\* Lines 161-166, set_ui_busy(False) queued by the reload worker.
set_ui_busy ==
    /\ Dispatched("set_ui_busy")
    /\ is_busy' = FALSE
    /\ lastLog' = <<>>
    /\ UNCHANGED <<packages_data, size_cache, cache_file, threads,
                   uninstalled, ops>>
    /\ MonolithFrame

\* Lines 254-259: the row of the name, if it is in the table, shows the size.
update_package_size_in_view ==
    /\ Dispatched("update_package_size_in_view")
    /\ LET cb == Head(idle_queue)
       IN packages_data' =
            [n \in DOMAIN packages_data |->
                IF n = cb.name
                THEN [packages_data[n] EXCEPT !.display_size = cb.size]
                ELSE packages_data[n]]
    /\ lastLog' = <<>>
    /\ UNCHANGED <<is_busy, size_cache, cache_file, threads, uninstalled,
                   ops>>
    /\ MonolithFrame

NextMonolith ==
    \/ on_install_clicked
    \/ on_update_clicked
    \/ on_uninstall_dialog_response
    \/ on_refresh_clicked
    \/ on_check_dependencies_clicked
    \/ \E t \in Running : MonolithPipWorker(t)
    \/ \E t \in Running : MonolithDepsWorker(t)
    \/ \E t \in Running : ReloadRun(t)
    \/ \E t \in Running : ReloadFinally(t)
    \/ \E t \in Running : MonolithSizeWorker(t)
    \/ finish_on_main_thread
    \/ deps_finish
    \/ update_package_list_store
    \/ set_ui_busy
    \/ update_package_size_in_view

SpecMonolith == InitMonolith /\ [][NextMonolith]_vars

\* ============================================================ properties

\* Number of running threads that are in the set S of thread records.
RECURSIVE CopiesOf(_)
CopiesOf(S) ==
    IF S = {} THEN 0
    ELSE LET t == CHOOSE x \in S : TRUE
         IN CopiesIn(t, threads) + CopiesOf(S \ {t})

\* No background thread is running and the UI thread is in no public method.
Quiescent == threads = EmptyBag /\ ui.pc = "idle"

\* This step takes the running thread t away from where it is.
Leaves(t) == CopiesIn(t, threads') < CopiesIn(t, threads)

\* This step starts one more thread w.
Starts(w) == CopiesIn(w, threads') = CopiesIn(w, threads) + 1

LoadThread == Thread("load", "list", "load", "")

\* A thread of the pip worker makes its callback step for command op.
CallbackStep(op) ==
    \E t \in Running :
        t.kind = "pip" /\ t.op = op /\ t.pc = "callback" /\ Leaves(t)

\* This step is a call of _begin_operation running to its return: by the UI
\* thread for operation op, or by a pip worker's callback for a refresh.
UiBeginStep == ui.pc = "begin" /\ ui'.pc = "idle"

\* C1: _begin_operation is an atomic test-and-set of is_busy.  A call made
\* while is_busy is true starts no worker (it returned False), queues the one
\* line 'already in progress' and leaves is_busy true; a call made while
\* is_busy is false sets is_busy and starts the worker of its operation (it
\* returned True).  Every call is one step under _main_lock, so of two calls
\* made from the idle state the second one finds is_busy set.
C1_BeginIsTestAndSet ==
    [][ /\ UiBeginStep =>
             IF is_busy
             THEN /\ is_busy' /\ lastLog' = <<AlreadyLine>>
                  /\ threads' = threads
             ELSE /\ is_busy' /\ lastLog' = <<>>
                  /\ Starts(WorkerFor(ui.op, ui.name))
        /\ \A op \in {"install", "update", "uninstall"} :
             CallbackStep(op) =>
                IF is_busy
                THEN /\ is_busy' /\ lastLog' = <<AlreadyLine>>
                     /\ ~Starts(LoadThread)
                ELSE /\ is_busy' /\ lastLog' = <<>>
                     /\ Starts(LoadThread)
      ]_vars

\* C1 witness: a begin call made while busy has been rejected.
C1_Witness == is_busy /\ lastLog = <<AlreadyLine>> /\ ui.pc = "idle"

TopLevelKinds == {"load", "pip", "deps", "details"}

\* C2: at most one top-level operation has begun and not yet finished its
\* worker: at most one thread of a top-level worker is running.
C2_SingleFlight ==
    CopiesOf({t \in Running : t.kind \in TopLevelKinds}) <= 1

\* C3: is_busy never gets stuck: once every worker has finished and the UI
\* thread is idle, is_busy is false.
C3_BusyNotStuck == Quiescent => ~is_busy

\* C4: when the command of install_package exits with code 0, the worker's
\* callback starts a full refresh (the thread of _initial_load_worker).
C4_InstallSuccessRefreshes ==
    [][CallbackStep("install") => Starts(LoadThread)]_vars

\* C5: after an uninstall command that exited with code 0, once all work has
\* finished the table has no record and the size cache no entry for the name.
C5_UninstallRemovesRecord ==
    Quiescent =>
        \A n \in uninstalled :
            n \notin DOMAIN packages_data /\ n \notin DOMAIN size_cache

\* This step is update_package(n) up to its call of _begin_operation.
UpdateCallStep(n) ==
    ui.pc = "idle" /\ ui'.pc = "begin" /\ ui'.op = "update" /\ ui'.name = n

\* C6: update_package(name) leaves no cached size of name behind before the
\* command runs, and when the command exits with code 0 the refresh follows.
C6_UpdateRecomputesSize ==
    [][ /\ \A n \in Names : UpdateCallStep(n) => n \notin DOMAIN size_cache'
        /\ CallbackStep("update") => Starts(LoadThread)
      ]_vars

\* C7: while a refresh still has a size calculation to schedule, is_busy is
\* true.
C7_BusyUntilLastCalculation ==
    \A t \in Running : (t.kind = "load" /\ t.pc = "schedule") => is_busy

\* A size worker takes the cancelled branch in this step.
CancelStep ==
    \E t \in Running :
        /\ t.kind = "size" /\ t.pc = "calc" /\ Leaves(t)
        /\ t.name \notin DOMAIN packages_data

\* C8: a size worker whose package is no longer in the table at write-back
\* writes nothing: the table, the size cache and the cache file stay as they
\* are, and the 'cancelled' line is queued.
C8_CancelledWritesNothing ==
    [][CancelStep =>
          /\ UNCHANGED <<packages_data, size_cache, cache_file>>
          /\ lastLog' = <<CancelledLine>>
      ]_vars

\* C8 witness: a cancelled size worker has just queued its line.
C8_Witness ==
    /\ lastLog = <<CancelledLine>>
    /\ \E t \in Running : t.kind = "size" /\ t.pc = "cancel_adjust"

\* C9: a size worker on the cancelled branch never waits, after its
\* decrement, for a lock it holds itself: it terminates and releases its locks.
C9_CancelledWorkerTerminates ==
    \A t \in Running : ~(t.kind = "size" /\ t.pc = "cancel_end")

\* Size workers that have not yet lowered the counter.
Undecremented ==
    {t \in Running :
        t.kind = "size" /\ t.pc \in {"calc", "save", "adjust", "cancel_adjust"}}

\* C10: active_size_calculations is never negative and equals the number of
\* size calculations started and not yet decremented, on both exit paths.
C10_CounterMatchesWorkers ==
    /\ active_size_calculations >= 0
    /\ active_size_calculations = CopiesOf(Undecremented)

\* C10 witness: a worker of the cancelled branch has made its decrement, the
\* last one outstanding, and no size worker is counted any more.
C10_Witness ==
    /\ active_size_calculations = 0
    /\ Undecremented = {}
    /\ \E t \in Running : t.kind = "size" /\ t.pc = "cancel_end"

\* The UI thread is inside _begin_operation, at `with self._main_lock`.
UiAtMainLock == ui.pc = "begin"

\* Worker t holds _main_lock while it writes the cache file (line 299), or
\* holds it for good (the cancelled branch stuck at line 320).
HoldsMainLockInIO(t) ==
    t.kind = "size" /\ t.pc \in {"save", "cancel_end"}

\* This step is run by the UI thread: a public method up to its call of
\* _begin_operation, or the empty-name return of install_package.
UiMethodStep == ui.pc = "idle" /\ ops' = ops + 1

\* C11: the UI thread never blocks.  No step of a public method run by the
\* UI thread writes the cache file, and the UI thread is never at the
\* acquisition of _main_lock while a background worker holds that lock
\* across its write of the cache file or holds it without ever releasing it.
C11_UiNeverBlocks ==
    [][ /\ UiMethodStep => cache_file' = cache_file
        /\ UiAtMainLock => \A t \in Running : ~HoldsMainLockInIO(t)
      ]_vars

\* This step replaces the table (and so marks the other load workers stale).
ReplaceStep ==
    \E u \in Running : u.kind = "load" /\ u.pc = "replace" /\ Leaves(u)

\* This step is made by the load worker t itself.
OwnLoadStep(t) == t.kind = "load" /\ Leaves(t) /\ ~ReplaceStep

\* This step starts no size worker.
NoSizeWorkerStarted ==
    \A w \in BagToSet(threads') :
        w.kind = "size" => CopiesIn(w, threads') <= CopiesIn(w, threads)

\* This step starts one size worker, for name n, and no other.
OneSizeWorkerStarted(n) ==
    \A w \in BagToSet(threads') :
        w.kind = "size" =>
            CopiesIn(w, threads') =
                CopiesIn(w, threads) +
                (IF w = Thread("size", "calc", "", n) THEN 1 ELSE 0)

C13_ReplacedWholesale ==
    [][ \A t \in Running :
          (t.kind = "load" /\ t.pc = "replace" /\ Leaves(t)) =>
              /\ DOMAIN packages_data' = t.new_packages_data
              /\ \A n \in DOMAIN packages_data' :
                    /\ packages_data'[n].latest_version = ""
                    /\ packages_data'[n] = NewPackage
      ]_vars

\* C13 witness: b had its size calculated and cached under an earlier table;
\* a later refresh that lists b alone has just replaced the table, and the
\* record of b is a new one.
C13_Witness ==
    /\ "b" \in DOMAIN size_cache
    /\ DOMAIN packages_data = {"b"}
    /\ packages_data["b"] = NewPackage
    /\ \E t \in Running :
          t.kind = "load" /\ t.pc = "notify" /\ t.new_packages_data = {"b"}

\* A pip worker whose command has returned a non-zero exit code.
Failed(t) == t.kind = "pip" /\ t.pc # "run" /\ t.return_code # 0

\* C14: a mutating command that returns a non-zero exit code (1, or -1 for
\* a missing executable) gets the error line logged by the step that ran it;
\* its worker never makes the callback, so it starts no refresh; and the one
\* step the worker has left ends the operation: it clears is_busy, starts no
\* load worker and leaves the package table as it is.
C14_FailedCommandEndsOperation ==
    [][ /\ \A u \in BagToSet(threads') :
              (Failed(u) /\ Starts(u)) =>
                  /\ lastLog' = <<ErrorLine>>
                  /\ u.pc = "finally" /\ ~u.success
                  /\ UNCHANGED <<packages_data, is_busy>>
                  /\ ~Starts(LoadThread)
        /\ \A t \in Running :
              (Failed(t) /\ Leaves(t)) =>
                  /\ ~is_busy'
                  /\ ~Starts(LoadThread)
                  /\ UNCHANGED packages_data
      ]_vars

\* C14 witness: with a table that has records, the command of an uninstall
\* has just returned -1 and its worker has the finally block left to run.
C14_Witness ==
    /\ lastLog = <<ErrorLine>>
    /\ is_busy
    /\ DOMAIN packages_data # {}
    /\ \E t \in Running :
          Failed(t) /\ t.return_code = -1 /\ t.op = "uninstall"

\* This step is uninstall_package(n) up to its call of _begin_operation.
UninstallCallStep(n) ==
    ui.pc = "idle" /\ ui'.pc = "begin" /\ ui'.op = "uninstall" /\ ui'.name = n

\* C15: uninstall_package(name) for a name with a cached size deletes the
\* entry and saves the cache, so that the file is the in-memory cache without
\* the name, in a step that starts no worker and runs no command; the worker
\* that runs the uninstall command of a name is started only later, by the
\* _begin_operation of that same call.
C15_CacheDroppedBeforeUninstall ==
    [][ \A n \in Names :
          /\ (UninstallCallStep(n) /\ n \in DOMAIN size_cache) =>
                /\ n \notin DOMAIN size_cache'
                /\ n \notin DOMAIN cache_file'
                /\ cache_file' = size_cache'
                /\ UNCHANGED <<threads, uninstalled>>
          /\ Starts(Thread("pip", "run", "uninstall", n)) =>
                ui.pc = "begin" /\ ui.op = "uninstall" /\ ui.name = n
      ]_vars

\* C15 witness: a had a size (its record still shows it) and b has one;
\* uninstall_package(a) has dropped a from the cache and saved the file with
\* b alone, and the uninstall command has no worker yet.
C15_Witness ==
    /\ ui.pc = "begin" /\ ui.op = "uninstall" /\ ui.name = "a"
    /\ "a" \in DOMAIN packages_data /\ packages_data["a"].size_str = KB15
    /\ DOMAIN size_cache = {"b"}
    /\ cache_file = size_cache
    /\ \A t \in Running : t.kind # "pip"

\* This step is a call of a public method that returns without reaching
\* _begin_operation.
ReturnsAtOnceStep == ui.pc = "idle" /\ ui'.pc = "idle" /\ ops' = ops + 1

\* C16: install_package with an empty name never gets as far as
\* _begin_operation or a command; the call returns at once, having queued
\* the one line 'Please enter a package name.', started no worker and left
\* is_busy (false when called from the idle state), the package table, the
\* size cache and its file as they were.
C16_EmptyNameIsNoOperation ==
    [][ /\ ~(ui'.op = "install" /\ ui'.name = "")
        /\ \A w \in BagToSet(threads') : ~(w.op = "install" /\ w.name = "")
        /\ ReturnsAtOnceStep =>
              /\ lastLog' = <<PleaseLine>>
              /\ UNCHANGED <<threads, is_busy, busy_note, packages_data,
                             size_cache, cache_file, uninstalled>>
              /\ ~is_busy => ~is_busy'
      ]_vars

\* C16 witness: from the idle state with a loaded table, the empty-name call
\* has just returned: its line is queued, nothing runs and is_busy is false.
C16_Witness ==
    /\ lastLog = <<PleaseLine>>
    /\ ui.pc = "idle" /\ threads = EmptyBag
    /\ ~is_busy
    /\ DOMAIN packages_data # {}

CacheThread == Thread("cache_size", "run", "", "")

\* The worker t of clear_pip_cache runs its finally block in this step.
PurgeFinallyStep(t) ==
    t.kind = "pip" /\ t.op = "clear" /\ t.pc = "finally" /\ Leaves(t)

\* C17 as claimed: whenever the worker of clear_pip_cache has run its
\* command and leaves through its finally block, whatever the exit code, a
\* cache-footprint worker is started.
C17_FootprintAfterEveryPurge ==
    [][\A t \in Running : PurgeFinallyStep(t) => Starts(CacheThread)]_vars

\* C17 amended: the finally block of the worker of clear_pip_cache, once it
\* has ended the operation, starts a cache-footprint worker when the command
\* exited with code 0 and none when it exited with another code; and the
\* step of the cache-footprint worker leaves is_busy and its notification as
\* they are.
C17_FootprintAfterPurgeSuccess ==
    [][ /\ \A t \in Running :
              PurgeFinallyStep(t) =>
                  /\ ~is_busy'
                  /\ IF t.return_code = 0
                     THEN Starts(CacheThread)
                     ELSE CopiesIn(CacheThread, threads') =
                              CopiesIn(CacheThread, threads)
        /\ (CacheThread \in Running /\ Leaves(CacheThread)) =>
              UNCHANGED <<is_busy, busy_note>>
      ]_vars

\* C17 witness: a purge that exited with code 0 has ended its operation and
\* left; its cache-footprint worker runs while is_busy is false.
C17_Witness ==
    /\ CacheThread \in Running
    /\ ~is_busy
    /\ \A t \in Running : t.kind # "pip"

\* The lines a worker of kind k can queue for the outcome of its gateway
\* call: none when the details dialog is queued instead.
OutcomeLogs(k) ==
    IF k = "deps" THEN {<<NoBrokenLine>>, <<IssuesLine>>}
    ELSE {<<>>, <<NoDetailsLine>>}

\* C18: the workers of check_dependencies and show_package_details go from
\* the gateway call to their finally block on every outcome (no conflicts;
\* conflicts or a gateway error, which is exit code -1; details; no
\* details), and leave only through it, by the step that clears is_busy:
\* when the worker has finished, is_busy is false.
C18_WorkersAlwaysEnd ==
    [][ \A t \in Running :
          (t.kind \in {"deps", "details"} /\ Leaves(t)) =>
              IF t.pc = "run"
              THEN /\ Starts([t EXCEPT !.pc = "finally"])
                   /\ lastLog' \in OutcomeLogs(t.kind)
              ELSE /\ t.pc = "finally"
                   /\ ~is_busy' /\ ~busy_note'
                   /\ \A w \in BagToSet(threads') :
                         CopiesIn(w, threads') <= CopiesIn(w, threads)
      ]_vars

\* C18 witness: the gateway has found no details for the package (or has
\* failed), the line is queued and the worker is at its finally block.
C18_Witness ==
    /\ lastLog = <<NoDetailsLine>>
    /\ is_busy
    /\ \E t \in Running : t.kind = "details" /\ t.pc = "finally"

\* The outdated-check worker makes its step.
UpdatesStep == UpdatesThread \in Running /\ Leaves(UpdatesThread)

\* C19: the step of the outdated-check worker leaves is_busy and its
\* notification, the size cache and its file, the counter of size
\* calculations, the locks and the total label as they are; the table keeps
\* its names, and a record differs after the step in latest_version at most.
C19_UpdatesWorkerFrame ==
    [][UpdatesStep =>
          /\ UNCHANGED <<is_busy, busy_note, size_cache, cache_file,
                         active_size_calculations, main_lock,
                         size_calculation_lock, total_label, uninstalled>>
          /\ DOMAIN packages_data' = DOMAIN packages_data
          /\ \A n \in DOMAIN packages_data :
                [packages_data'[n] EXCEPT !.latest_version = ""] =
                [packages_data[n] EXCEPT !.latest_version = ""]
      ]_vars

\* C19 witness: the worker has reported a newer version of a, which is in
\* the table, and has left; b has none.
C19_Witness ==
    /\ DOMAIN packages_data = {"a", "b"}
    /\ packages_data["a"].latest_version = NewerVersion
    /\ packages_data["b"].latest_version = ""
    /\ UpdatesThread \notin Running

\* The load worker t returns in this step: it leaves and no load worker
\* takes its place.
LoadExitStep(t) ==
    /\ OwnLoadStep(t)
    /\ \A u \in BagToSet(threads') :
          u.kind = "load" => CopiesIn(u, threads') <= CopiesIn(u, threads)

\* Outdated-check workers started by this step.
UpdatesStarted ==
    CopiesIn(UpdatesThread, threads') - CopiesIn(UpdatesThread, threads)

\* C20 as claimed: the worker of every load_packages call that began
\* launches the outdated-check worker when it returns, whatever the outcome
\* of phase 1.
C20_Phase2AlwaysLaunched ==
    [][\A t \in Running : LoadExitStep(t) => UpdatesStarted = 1]_vars

\* C20 amended: a load worker launches the outdated-check worker as its
\* last act and nowhere else: exactly one when the listing succeeded, with
\* every name iterated, whether size calculations are outstanding (it
\* returns from the loop) or not (it returns after _end_operation); none
\* when the listing raised.
C20_Phase2OnceUnlessListingFails ==
    [][ /\ \A t \in Running :
              LoadExitStep(t) =>
                  IF t.pc = "except"
                  THEN UpdatesStarted = 0
                  ELSE /\ UpdatesStarted = 1
                       /\ t.todo = {}
                       /\ t.pc = "end" <=> t.num_to_calculate = 0
        /\ UpdatesStarted > 0 =>
              \E t \in Running : LoadExitStep(t) /\ t.pc # "except"
      ]_vars

\* C20 witness: the load worker has returned and phase 2 runs while a size
\* calculation of phase 1 is still outstanding.
C20_Witness ==
    /\ UpdatesThread \in Running
    /\ \A t \in Running : t.kind # "load"
    /\ \E t \in Running : t.kind = "size" /\ t.pc = "calc"
    /\ active_size_calculations > 0

\* Every record of the table has its size hydrated or calculated, or a size
\* worker of its name is running.
AllHydratedOrScheduled ==
    \A n \in DOMAIN packages_data :
        \/ packages_data[n].size_str # Pending
        \/ \E w \in Running : w.kind = "size" /\ w.name = n

\* C21: an outdated-check worker is started only by a load worker that is
\* past the replacement of the table and the package-list notification and
\* has no name left to iterate, none waiting to be scheduled; and if the
\* table is still the one it installed, the table has the listed names and
\* every record is hydrated or has had its size worker started.
C21_Phase2AfterPhase1 ==
    [][UpdatesStarted > 0 =>
          \E t \in Running :
              /\ LoadExitStep(t)
              /\ t.pc \in {"loop", "end"}
              /\ t.todo = {}
              /\ t.current =>
                    /\ DOMAIN packages_data = t.new_packages_data
                    /\ AllHydratedOrScheduled
      ]_vars

\* An outdated-check worker whose reachability probe has failed.
Offline(t) == t.kind = "updates" /\ ~t.connected

\* C22: an outdated-check worker whose reachability probe has failed is
\* never at the outdated-list command: it has the empty mapping and the
\* offline status; and the step in which the Coordinator uses that pair
\* writes nothing to the table, whose records all keep an empty
\* latest_version.
C22_OfflineSkipsCommand ==
    [][\A t \in Running :
          Offline(t) =>
              /\ t.pc = "report"
              /\ t.outdated_info = {}
              /\ t.status_message = OfflineLine
              /\ Leaves(t) =>
                    /\ UNCHANGED packages_data
                    /\ \A n \in DOMAIN packages_data' :
                          packages_data'[n].latest_version = ""
      ]_vars

\* C22 witness: the probe has failed for the worker of a table with records.
C22_Witness ==
    /\ DOMAIN packages_data = {"a", "b"}
    /\ \E t \in Running :
          Offline(t) /\ t.pc = "report" /\ t.status_message = OfflineLine

\* An outdated-check worker that has got a failure from the gateway: no
\* connection, or a non-zero exit code of the outdated-list command (the
\* timeout and the other exceptions show in the status alone).
OutdatedCheckFailed(t) ==
    t.kind = "updates" /\ t.pc = "report" /\
    (~t.connected \/ t.return_code # 0)

\* C23: get_outdated_packages always returns (no path of it raises: every
\* worker that called it gets to use the pair), and whenever the outdated
\* check has failed the status message it returns is not empty.
C23_EveryFailureHasStatus ==
    \A t \in Running : OutdatedCheckFailed(t) => t.status_message # NoStatus

\* A step of the UI thread in which update_package or uninstall_package
\* changes the in-memory size cache; the method touches neither the cache
\* nor the file after it.
UiCacheMutationStep ==
    ui.pc = "idle" /\ ui'.pc = "begin" /\ size_cache' # size_cache

\* The step in which a size worker's save_size_cache after its write-back
\* returns.
SizeSaveStep ==
    \E t \in Running : t.kind = "size" /\ t.pc = "save" /\ Leaves(t)

\* C24: every operation that changes the in-memory size cache saves it: after
\* the size write-back's save, and after the cache work of an update_package
\* or uninstall_package that removed an entry, the cache file holds exactly
\* the in-memory mapping.
C24_SavedAfterEachMutation ==
    [][(UiCacheMutationStep \/ SizeSaveStep) => cache_file' = size_cache']_vars

\* The save_size_cache calls that are inside the with block of line 28.
WritersInside ==
    CopiesOf({t \in Running :
                 t.kind = "save" /\ t.pc \in {"open", "dump", "release"}})

\* This step completes the save of thread t: the whole text is written and
\* the file is closed.
CompletesSave(t) ==
    /\ t.kind = "save" /\ t.pc = "dump"
    /\ Leaves(t)
    /\ Starts([t EXCEPT !.pc = "release", !.success = TRUE])

\* C25: saves of the size cache are mutually exclusive: no step takes a
\* second thread into the file-write section of save_size_cache, and the
\* step that completes a save leaves in the file the complete text of that
\* writer's mapping and nothing of another writer's.
C25_SavesMutuallyExclusive ==
    [][ /\ WritersInside' <= 1
        /\ \A t \in Running :
              CompletesSave(t) => cache_file' = File(Dump(t.cache_data))
      ]_vars

\* C25 witness: one thread is in the middle of writing its mapping while
\* another waits for the lock with a different one.
C25_Witness ==
    \E t, w \in Running :
        /\ t.kind = "save" /\ t.pc = "dump" /\ t.written = 2
        /\ w.kind = "save" /\ w.pc = "lock"
        /\ w.cache_data # t.cache_data
        /\ cache_save_lock

\* A step in which a process starts and AppLogic.__init__ calls
\* load_size_cache: the only steps that leave the count of calls at 0.
CacheLoadStep == ops' = 0

\* C26: load_size_cache never raises: it returns the empty mapping when the
\* cache file is absent, unreadable or not valid JSON, and the stored
\* mapping otherwise.
C26_LoadNeverRaises ==
    [][CacheLoadStep =>
          /\ ui'.pc # "raised"
          /\ IF cache_file.exists /\ Decodable(cache_file.text)
                /\ ValidJSON(cache_file.text)
             THEN size_cache' \in {<<>>, JsonValue(cache_file.text)}
             ELSE size_cache' = <<>>
      ]_vars

\* This step is the return of the save_size_cache call of thread t.
SaveReturns(t) ==
    t.kind = "save" /\ t.pc = "release" /\ Leaves(t) /\ ~CacheLoadStep

\* What load_size_cache returns from the file after this step when it can
\* read it.
LoadedNext == load_size_cache(cache_file', "ok")

MeasuredSizes ==
    {[total |-> packages_data[n].size_bytes, str |-> packages_data[n].size_str] :
        n \in {m \in DOMAIN packages_data : packages_data[m].size_str.kind = "num"}}

\* C28: the size string of every measured byte total n has unit B with the
\* whole byte count when n < 1024, KB when 1024 <= n < 1024^2, MB when
\* 1024^2 <= n < 1024^2 * 999, and GB otherwise; 0 gives "0 B", 1536 gives
\* "1.5 KB", 2097152 gives "2.00 MB" and 1073741824 gives "1.00 GB".
C28_UnitThresholds ==
    \A r \in MeasuredSizes :
        /\ r.total < 1024 =>
              r.str.unit = "B" /\ r.str.hundredths = 100 * r.total
        /\ 1024 <= r.total /\ r.total < 1024 * 1024 => r.str.unit = "KB"
        /\ 1024 * 1024 <= r.total /\ r.total < 1024 * 1024 * 999 =>
              r.str.unit = "MB"
        /\ 1024 * 1024 * 999 <= r.total => r.str.unit = "GB"
        /\ r.total = 0 => SizeText(r.str) = "0 B"
        /\ r.total = 1536 => SizeText(r.str) = "1.5 KB"
        /\ r.total = 2097152 => SizeText(r.str) = "2.00 MB"
        /\ r.total = 1073741824 => SizeText(r.str) = "1.00 GB"

\* C28 witness: a package of 1024^2 * 999 - 1 bytes, the last total shown in
\* MB, has been measured.
C28_Witness ==
    \E r \in MeasuredSizes :
        r.total = 1024 * 1024 * 999 - 1 /\ SizeText(r.str) = "999.00 MB"

\* A load worker whose listing of the local packages has failed.
ListingFailed(t) == t.kind = "load" /\ t.return_code # 0

\* C29: a load worker whose listing has failed is in its except block and
\* nowhere else, and its step there is its last: it queues the one
\* critical-error line, leaves the package table as it was, starts no thread
\* (no size calculation, no outdated check) and clears is_busy; the
\* exception reaches no caller.
C29_ListingFailureEndsOperation ==
    [][\A t \in Running :
          ListingFailed(t) =>
              /\ t.pc = "except"
              /\ Leaves(t) =>
                    /\ lastLog' =
                         <<"A critical error occurred while loading local packages">>
                    /\ UNCHANGED <<packages_data, size_cache, cache_file,
                                   active_size_calculations, total_label>>
                    /\ threads' = Exit(threads, t)
                    /\ ~is_busy' /\ ~busy_note'
      ]_vars

\* C29 witness: the listing of a refresh has failed while the table of an
\* earlier refresh has records, and is_busy is set.
C29_Witness ==
    /\ is_busy
    /\ packages_data # EmptyMap
    /\ \E t \in Running : ListingFailed(t) /\ t.pc = "except"

\* A size worker whose decrement has brought the counter to 0 makes its
\* _end_operation step.
CounterZeroEndStep ==
    \E t \in Running :
        t.kind = "size" /\ t.pc \in {"end", "cancel_end"} /\ Leaves(t)

\* is_busy is held by a top-level operation other than a refresh: the worker
\* its begin started is running.
OtherOperationHoldsBusy ==
    is_busy /\ \E t \in Running : t.kind \in {"pip", "deps", "details"}

\* C30: raising the counter from 0 to 1 queues the 'Calculating...' label;
\* lowering it to 0 queues the final total; and the _end_operation that
\* follows a counter reaching 0 does not clear is_busy while a top-level
\* operation other than the refresh holds it.
C30_ZeroClearsOnlyOwnBusy ==
    [][ /\ (active_size_calculations = 0 /\ active_size_calculations' = 1)
              => total_label' = CalculatingLabel
        /\ (active_size_calculations > 0 /\ active_size_calculations' = 0)
              => total_label' = TotalLabel(packages_data)
        /\ (CounterZeroEndStep /\ OtherOperationHoldsBusy) => is_busy'
      ]_vars

\* C31: every write to is_busy, to the table reference or to a field of a
\* record of the table is made by a thread that holds _main_lock, and every
\* write to active_size_calculations by one that holds
\* _size_calculation_lock: the writer takes the lock for the write, so no
\* step changes them while another thread holds the lock.
C31_WritesUnderLocks ==
    [][ /\ (is_busy' # is_busy \/ packages_data' # packages_data)
              => ~main_lock
        /\ active_size_calculations' # active_size_calculations
              => ~size_calculation_lock
      ]_vars

\* Size worker t is inside `with self._main_lock` (lines 290-299).
HoldsMainLock(t) ==
    t.kind = "size" /\ t.pc \in {"save", "cancel_adjust", "cancel_end"}

\* Size worker t is inside `with self._size_calculation_lock` (line 309).
HoldsSizeCalculationLock(t) ==
    t.kind = "size" /\ t.pc \in {"end", "cancel_end"}

\* The next step of size worker t is an acquisition of _main_lock: the
\* write-back (line 290) or _end_operation (line 64).
SizeWorkerRequestsMainLock(t) ==
    t.kind = "size" /\ t.pc \in {"calc", "end", "cancel_end"}

\* The next step of size worker t is an acquisition of
\* _size_calculation_lock (line 309).
SizeWorkerRequestsSizeCalculationLock(t) ==
    t.kind = "size" /\ t.pc \in {"adjust", "cancel_adjust"}

\* C32: the two locks never deadlock.  No thread requests a lock it already
\* holds, and a lock that is taken is held by a running thread that is not
\* itself waiting for that lock, so that every waiter can get it.
C32_LocksNeverDeadlock ==
    /\ \A t \in Running :
          /\ ~(HoldsMainLock(t) /\ SizeWorkerRequestsMainLock(t))
          /\ ~(HoldsSizeCalculationLock(t)
                 /\ SizeWorkerRequestsSizeCalculationLock(t))
    /\ main_lock =>
          \E t \in Running :
              HoldsMainLock(t) /\ ~SizeWorkerRequestsMainLock(t)
    /\ size_calculation_lock =>
          \E t \in Running :
              /\ HoldsSizeCalculationLock(t)
              /\ ~SizeWorkerRequestsSizeCalculationLock(t)

\* The UI thread leaves _begin_operation with the call rejected.
RejectedStep == UiBeginStep /\ lastLog' = <<AlreadyLine>>

\* C33: a public operation rejected because the Coordinator is busy has no
\* effect besides its log line: the method has deleted no entry of the size
\* cache before the rejection, and the rejection leaves the table, the size
\* cache, the cache file, is_busy and the counter as they are.
C33_RejectedCallHasNoEffect ==
    [][ RejectedStep =>
          /\ ~ui.deleted
          /\ UNCHANGED <<packages_data, size_cache, cache_file, is_busy,
                         active_size_calculations>>
      ]_vars

\* Some thread has changed is_busy and not yet queued its set_busy.
BetweenWriteAndSetBusy ==
    ui.pc = "set_busy" \/ \E t \in Running : t.pc = "set_busy"

\* C34: busy notifications are queued in the order of the is_busy changes.
\* Whenever no thread is between its change of is_busy and the queuing of
\* its set_busy, the value queued last equals is_busy.
C34_BusyNotesInOrder ==
    ~BetweenWriteAndSetBusy => busy_note = is_busy

\* This step finishes a refresh: the except block after a failed listing,
\* the _end_operation after a loop that found every size in the cache, or
\* the _end_operation of the size worker that brought the counter to 0.
RefreshFinishStep ==
    \E t \in Running :
        /\ Leaves(t)
        /\ \/ t.kind = "load" /\ t.pc \in {"except", "end"}
           \/ t.kind = "size" /\ t.pc \in {"end", "cancel_end"}

\* C35: when a refresh has finished, the total-size label queued last is the
\* computed total of size_bytes over the current table, and neither
\* "Total Size: ..." nor "Total Size: Calculating...".
C35_TotalShownAfterRefresh ==
    [][ RefreshFinishStep =>
          /\ total_label' = TotalLabel(packages_data')
          /\ total_label' \notin {PlaceholderLabel, CalculatingLabel}
      ]_vars

\* The two sentinels of PipService.get_package_size.
Sentinels == {NotFound, ErrorStr}

\* C36: the write-back stores the size string the gateway returned in the
\* size cache whatever its value, the sentinels included: after it the cache
\* entry of the name is the string written to the record.  A refresh whose
\* loop meets a name with a sentinel in the cache hydrates the record with
\* it (0 bytes) and schedules no calculation: no size worker starts, the
\* counter and the worker's count of calculations stay as they are.
C36_SentinelsCachedAndHydrated ==
    [][ \A t \in Running :
          /\ (/\ t.kind = "size" /\ t.pc = "calc" /\ Leaves(t)
              /\ t.name \in DOMAIN packages_data) =>
                /\ t.name \in DOMAIN size_cache'
                /\ size_cache'[t.name] \in {r.size_str : r \in SizeResults}
                /\ size_cache'[t.name] = packages_data'[t.name].size_str
          /\ (/\ OwnLoadStep(t) /\ t.pc = "loop" /\ t.todo # {}
              /\ FirstName(t.todo) \in DOMAIN size_cache
              /\ size_cache[FirstName(t.todo)] \in Sentinels) =>
                LET n == FirstName(t.todo)
                IN /\ NoSizeWorkerStarted
                   /\ Starts([t EXCEPT !.todo = t.todo \ {n}])
                   /\ active_size_calculations' = active_size_calculations
                   /\ size_cache' = size_cache
                   /\ t.current =>
                         /\ packages_data'[n].size_str = size_cache[n]
                         /\ packages_data'[n].size_bytes = 0
      ]_vars

\* C36 witness: the size worker of an earlier refresh has cached "Not Found"
\* for a; a later refresh has replaced the table and its loop has gone
\* through every name without scheduling a calculation, and the new record
\* of a carries the sentinel while no size worker runs.
C36_Witness ==
    /\ "a" \in DOMAIN packages_data /\ "a" \in DOMAIN size_cache
    /\ size_cache["a"] = NotFound
    /\ packages_data["a"].size_str = NotFound
    /\ \A w \in Running : w.kind # "size"
    /\ active_size_calculations = 0
    /\ \E t \in Running :
          /\ t.kind = "load" /\ t.pc = "loop" /\ t.todo = {}
          /\ t.num_to_calculate = 0 /\ t.current

\* This step writes latest_version in a record of the table.
LatestVersionWritten ==
    /\ ~ReplaceStep
    /\ \E n \in DOMAIN packages_data \cap DOMAIN packages_data' :
          packages_data'[n].latest_version # packages_data[n].latest_version

\* The load worker that built the current table is still running: the
\* outdated check of its refresh, which it starts as it leaves, does not
\* exist yet.
BuilderStillRunning == \E t \in Running : t.kind = "load" /\ t.built

\* C37: latest_version is written only by the outdated check launched by the
\* refresh that built the current table.  A check launched by an earlier
\* refresh writes nothing into the table of a later one: while the worker
\* that built the table has not yet launched its check, no step writes
\* latest_version.
C37_OnlyOwnCheckWrites ==
    [][LatestVersionWritten => ~BuilderStillRunning]_vars

\* The main loop runs the finish_on_main_thread of a command that exited
\* with code 0.
FinishSuccessStep ==
    /\ idle_queue # <<>>
    /\ Head(idle_queue).fn = "finish_on_main_thread"
    /\ Head(idle_queue).return_code = 0
    /\ idle_queue' = Tail(idle_queue)

\* C38: in the monolithic window a successful install, update or uninstall
\* is followed by a reload of the package list: the load_packages_threaded
\* call of the success callback starts its reload worker.  And is_busy is
\* false again once no worker runs and no callback is queued.
C38_SuccessReloadsList ==
    [][ /\ FinishSuccessStep =>
              CopiesIn(ReloadWorker, threads') =
                  CopiesIn(ReloadWorker, threads) + 1
        /\ (threads' = EmptyBag /\ idle_queue' = <<>>) => ~is_busy'
      ]_vars

====
